---- MODULE Spec2Model ----
(***************************************************************************)
(* A model of the ReelSummarize backend core:                              *)
(*   - Summarizer.summarize and the video attempt it runs                  *)
(*     (src/services/summarizer.py), as SpecSumm;                          *)
(*   - Geocoder.geocode_multiple (src/services/geocoder.py), as SpecGeo;   *)
(*   - single functions, each under a specification of its own: geocode    *)
(*     (SpecGeocode), search_locations_with_ai (SpecSearch),               *)
(*     _clean_location_name (SpecClean), _parse_location_lines (SpecParse),*)
(*     extract_title_from_summary (SpecTitle), _wait_for_file_active       *)
(*     (SpecWait), _extract_locations_section (SpecSection);               *)
(*   - the /api/summarize handlers of src/main.py, as SpecHandler;         *)
(*   - concurrent summarize_video attempts, as SpecAttempts.               *)
(* The external collaborators (file API, generation API, geocoding API,    *)
(* the executor) are the environment: every outcome they can produce is a  *)
(* nondeterministic choice of the action that calls them.                  *)
(***************************************************************************)
EXTENDS Integers, Sequences, FiniteSets, TLC

VARIABLES
    \* ---- one call of Summarizer.summarize ----
    pc,             \* position of the call
    video_path,     \* argument: None, "" or a path
    prefer_video,   \* argument
    metadata,       \* argument: a metadata value (see MetadataInputs)
    video_error,    \* local of summarize
    file_name,      \* local of _generate: the uploaded asset's name
    elapsed,        \* seconds since _wait_for_file_active started
    pending,        \* what _generate is about to return or raise
    video_outcome,  \* what `await self.summarize_video(...)` produced
    result,         \* the dict summarize returned
    raised,         \* an exception left summarize
    \* observations of the collaborator calls made so far
    polls,          \* client.files.get calls
    last_state,     \* the state the last client.files.get reported
    wait_outcome,   \* how _wait_for_file_active ended, "none" until it has
    video_gen_calls,\* generate_content calls with the video
    delete_calls,   \* client.files.delete calls
    delete_failed,  \* a client.files.delete call raised
    meta_gen_calls, \* summarize_from_metadata calls
    meta_outcome,   \* what `await self.summarize_from_metadata(...)` produced
    \* ---- one call of Geocoder.geocode_multiple ----
    gpc,            \* position of the call
    api_key,        \* self.api_key is set
    location_names, \* argument
    idx,            \* how many names the for loop has consumed
    locations,      \* local: accepted locations
    seen_coords,    \* local: rounded keys accepted
    geo_result,     \* the list returned
    successes,      \* observation: the locations geocode returned, in order
    lookups,        \* observation: geocode calls
    delays,         \* observation: asyncio.sleep(0.1) calls
    geo_raised,     \* an exception left geocode_multiple
    \* ---- one call of Geocoder.geocode ----
    g_pc,           \* position of the call
    g_key,          \* self.api_key is set
    g_name,         \* argument location_name
    g_response,     \* what the geocoding request met
    g_result,       \* the Location returned, as a sequence of no or one
    \* ---- one call of search_locations_with_ai ----
    s_pc,           \* position of the call
    s_key,          \* GEMINI_API_KEY is set
    reels_data,     \* argument
    response_text,  \* what _search returned
    s_result,       \* the list returned
    s_raised,       \* the exception that left the call, "none" if none did
    \* ---- _clean_location_name applied twice ----
    c_pc,           \* position
    c_name,         \* the name given
    c_once,         \* _clean_location_name(name)
    c_twice,        \* _clean_location_name of that
    \* ---- one call of _parse_location_lines ----
    p_pc,           \* position of the call
    content,        \* argument: the body of the locations section
    lines,          \* the lines the loop has not visited yet
    p_locations,    \* the list built, returned when the call is done
    \* ---- one call of extract_title_from_summary ----
    t_pc,           \* position of the call
    summary,        \* argument: the summary text
    pattern_idx,    \* the pattern the loop is at
    title,          \* local: no title (empty sequence) or one title
    discarded,      \* some pattern matched and its title was set back to None
    \* ---- one request to /api/summarize or /api/summarize-quick ----
    h_pc,           \* position of the handler
    endpoint,       \* "summarize" or "quick"
    gemini_key,     \* GEMINI_API_KEY is set
    dir_created,    \* download_media created the directory of the request
    request_id,     \* local of summarize_media: None or the id
    cleanup_tasks,  \* number of cleanup_download tasks added
    h_result,       \* what summarizer.summarize returned
    locations_list, \* local: None (empty sequence) or one list
    response,       \* what the handler handed back
    \* ---- one call of _wait_for_file_active, by itself ----
    w_pc,           \* position of the call
    max_wait_seconds, \* argument
    start_offset,   \* time.time() - start_time at the last evaluation
    w_checks,       \* client.files.get calls
    w_sleeps,       \* time.sleep(poll_interval) calls
    w_state,        \* the state the last check reported
    w_outcome,      \* "none", "active", "failed" or "timeout"
    \* ---- one call of _extract_locations_section ----
    x_pc,           \* position of the call
    x_text,         \* argument: the summary text
    x_idx,          \* the pattern the loop is at
    x_matched,      \* the patterns whose re.search gave a match, in order
    x_result,       \* no section (empty sequence) or one section body
    \* ---- several summarize_video attempts on worker threads ----
    a_pc,           \* attempt -> position of its _generate
    a_file_name,    \* attempt -> the local file_name of its _generate
    a_polls,        \* attempt -> state checks made
    a_pending,      \* attempt -> how its try block ended: "none", "return", "raise"
    remote_files,   \* the assets the file API holds
    names_issued,   \* how many asset names the file API has given out
    a_uploaded,     \* attempt -> the names its uploads returned
    a_released      \* attempt -> the names it called files.delete with

summVars == <<pc, video_path, prefer_video, metadata, video_error, file_name,
              elapsed, pending, video_outcome, result, raised, polls,
              video_gen_calls, delete_calls, delete_failed, meta_gen_calls, meta_outcome,
              last_state, wait_outcome>>

\* what the model observes of _wait_for_file_active
waitObs == <<last_state, wait_outcome>>

geoVars == <<gpc, api_key, location_names, idx, locations, seen_coords,
             geo_result, successes, lookups, delays, geo_raised>>

\* the variables of the calls of single functions
geocodeVars == <<g_pc, g_key, g_name, g_response, g_result>>

searchVars == <<s_pc, s_key, reels_data, response_text, s_result, s_raised>>

cleanVars == <<c_pc, c_name, c_once, c_twice>>

parseVars == <<p_pc, content, lines, p_locations>>

textVars == <<cleanVars, parseVars>>

titleVars == <<t_pc, summary, pattern_idx, title, discarded>>

handlerVars == <<h_pc, endpoint, gemini_key, dir_created, request_id, cleanup_tasks,
                 h_result, locations_list, response>>

waitVars == <<w_pc, max_wait_seconds, start_offset, w_checks, w_sleeps, w_state, w_outcome>>

sectionVars == <<x_pc, x_text, x_idx, x_matched, x_result>>

attemptVars == <<a_pc, a_file_name, a_polls, a_pending, remote_files, names_issued,
                 a_uploaded, a_released>>

tailVars == <<waitVars, sectionVars, attemptVars>>

restVars == <<titleVars, handlerVars, tailVars>>

fnVars == <<geocodeVars, searchVars, textVars, restVars>>

vars == <<summVars, geoVars, fnVars>>

(***************************************************************************)
(* Values                                                                  *)
(***************************************************************************)
\* Python's None
Null == "None"

\* a key the returned dict does not have
Absent == "absent"

\* truthiness of an Optional[str]
Truthy(s) == s /= Null /\ s /= ""

\* the texts response.text can be: a summary, the empty string, or None
ResponseTexts == {"summary text", "", Null}

\* the states client.files.get can report
FileStates == {"PROCESSING", "ACTIVE", "FAILED", "STATE_UNSPECIFIED"}

\* a value of a metadata key: missing, present but None or "", present with text
FieldValues == {"missing", "blank", "text"}

\* the metadata argument: None, or a dict with title, description and
\* possibly other keys (uploader, duration, ...)
MetadataInputs ==
    {[is_none |-> TRUE, title |-> "missing", description |-> "missing", other |-> FALSE]}
    \cup [is_none : {FALSE}, title : FieldValues, description : FieldValues,
          other : BOOLEAN]

\* bool(metadata): None and the empty dict are falsy
MetadataTruthy(m) ==
    /\ ~m.is_none
    /\ (m.title /= "missing" \/ m.description /= "missing" \/ m.other)

\* metadata.get(key) is truthy
FieldTruthy(v) == v = "text"

\* poll_interval of _wait_for_file_active
POLL_INTERVAL == 2

\* max_wait_seconds default of _wait_for_file_active
MAX_WAIT_SECONDS == 120

NoPending == [kind |-> "none", cls |-> Null, val |-> Null]

Return(text) == [kind |-> "return", cls |-> Null, val |-> text]

Raise(cls, msg) == [kind |-> "raise", cls |-> cls, val |-> msg]

NoResult == [summary |-> Null, method |-> "unset", success |-> FALSE, error |-> Absent]

(***************************************************************************)
(* Summarizer: the pure decisions of the code                              *)
(***************************************************************************)
\* a _wait_for_file_active that does not test for FAILED
WaitForFileActiveStepNoFailed(state, el, max_wait) ==
    IF state = "ACTIVE" THEN "active"
    ELSE IF el >= max_wait THEN "timeout"
    ELSE "sleep"

\* a _wait_for_file_active that takes FAILED for ACTIVE
WaitForFileActiveStepFailedIsActive(state, el, max_wait) ==
    IF state \in {"ACTIVE", "FAILED"} THEN "active"
    ELSE IF el >= max_wait THEN "timeout"
    ELSE "sleep"

\* a _wait_for_file_active that times out only past its bound
WaitForFileActiveStepLateTimeout(state, el, max_wait) ==
    IF state = "ACTIVE" THEN "active"
    ELSE IF state = "FAILED" THEN "failed"
    ELSE IF el > max_wait THEN "timeout"
    ELSE "sleep"

\* one pass of the while loop of _wait_for_file_active, after files.get
\* reported `state` with `el` seconds elapsed
WaitForFileActiveStep(state, el, max_wait) ==
    IF state = "ACTIVE" THEN "active"
    ELSE IF state = "FAILED" THEN "failed"
    ELSE IF el >= max_wait THEN "timeout"
    ELSE "sleep"

\* a _delete_file without its try/except
DeleteFileUnguarded(delete_ok) == ~delete_ok

\* _delete_file lets an exception of client.files.delete out
DeleteFileRaises(delete_ok) == FALSE

\* the finally clause of _generate: what leaves _generate when the try block
\* ended with `pend` and the finally body raised or not
FinallyOutcome(pend, finally_raised) ==
    IF finally_raised
    THEN [kind |-> "raise", cls |-> "Exception", val |-> "delete failed"]
    ELSE pend

\* a summarize that catches SummarizationError only
SummarizeCatchesOwnErrorOnly(cls) == cls = "SummarizationError"

\* the except clauses of summarize around summarize_video
SummarizeCatches(cls) == cls \in {"SummarizationError", "Exception"}

\* the dict summarize returns when summarize_video returned `text`
VideoSuccess(text) ==
    [summary |-> text, method |-> "video_analysis", success |-> TRUE, error |-> Absent]

\* the condition guarding the video attempt
VideoRequested(path, prefer) == Truthy(path) /\ prefer

\* the condition guarding the metadata fallback
MetadataEligible(m) ==
    MetadataTruthy(m) /\ (FieldTruthy(m.title) \/ FieldTruthy(m.description))

\* a metadata success that reports the video failure as its error
MetadataSuccessWithVideoError(text) ==
    [summary |-> text, method |-> "metadata_analysis", success |-> TRUE,
     error |-> IF Truthy(video_error) THEN video_error ELSE Absent]

\* the dict summarize returns when summarize_from_metadata returned `text`
MetadataSuccess(text) ==
    [summary |-> text, method |-> "metadata_analysis", success |-> TRUE, error |-> Absent]

\* the dict summarize returns when summarize_from_metadata raised
MetadataFailure(cls, msg) ==
    [summary |-> Null, method |-> "failed", success |-> FALSE,
     error |-> IF cls = "SummarizationError" THEN msg ELSE "Unexpected error: " \o msg]

\* a final failure that drops the captured video error
FinalFailureGeneric(verr) ==
    [summary |-> Null,
     method |-> IF Truthy(verr) THEN "failed" ELSE "none",
     success |-> FALSE,
     error |-> "No content available for summarization"]

\* a final failure that is always tagged "failed"
FinalFailureAlwaysFailed(verr) ==
    [summary |-> Null,
     method |-> "failed",
     success |-> FALSE,
     error |-> IF Truthy(verr) THEN verr ELSE "No content available for summarization"]

\* the dict summarize returns when no strategy produced a summary
FinalFailure(verr) ==
    [summary |-> Null,
     method |-> IF Truthy(verr) THEN "failed" ELSE "none",
     success |-> FALSE,
     error |-> IF Truthy(verr) THEN verr ELSE "No content available for summarization"]

(***************************************************************************)
(* Summarizer: the steps of one summarize call                             *)
(***************************************************************************)
SummInputs ==
    /\ video_path \in {Null, "", "video.mp4"}
    /\ prefer_video \in BOOLEAN
    /\ metadata \in MetadataInputs

GeoIdle ==
    /\ gpc = "idle"
    /\ api_key = FALSE
    /\ location_names = <<>>
    /\ idx = 0
    /\ locations = <<>>
    /\ seen_coords = {}
    /\ geo_result = <<>>
    /\ successes = <<>>
    /\ lookups = 0
    /\ delays = 0
    /\ geo_raised = FALSE

\* no geocode call is in progress
GeocodeIdle ==
    /\ g_pc = "idle"
    /\ g_key = FALSE
    /\ g_name = 0
    /\ g_response = [exception |-> FALSE, http |-> 200, status |-> "OK",
                     results |-> FALSE, lat |-> FALSE, lng |-> FALSE]
    /\ g_result = <<>>

\* no search_locations_with_ai call is in progress
SearchIdle ==
    /\ s_pc = "idle"
    /\ s_key = FALSE
    /\ reels_data = <<>>
    /\ response_text = [is_none |-> TRUE, tokens |-> <<>>]
    /\ s_result = <<>>
    /\ s_raised = "none"

\* no _clean_location_name call is in progress
CleanIdle ==
    /\ c_pc = "idle"
    /\ c_name = <<>>
    /\ c_once = <<>>
    /\ c_twice = <<>>

\* no _parse_location_lines call is in progress
ParseIdle ==
    /\ p_pc = "idle"
    /\ content = <<>>
    /\ lines = <<>>
    /\ p_locations = <<>>

TextIdle == CleanIdle /\ ParseIdle

\* no extract_title_from_summary call is in progress
TitleIdle ==
    /\ t_pc = "idle"
    /\ summary = <<>>
    /\ pattern_idx = 1
    /\ title = <<>>
    /\ discarded = FALSE

\* no response yet
NoResponse == [kind |-> "none", success |-> FALSE, locations |-> <<>>]

\* no request is being handled
HandlerIdle ==
    /\ h_pc = "idle"
    /\ endpoint = "summarize"
    /\ gemini_key = FALSE
    /\ dir_created = FALSE
    /\ request_id = "None"
    /\ cleanup_tasks = 0
    /\ h_result = [success |-> FALSE, summary |-> "None"]
    /\ locations_list = <<>>
    /\ response = NoResponse

\* no _wait_for_file_active call by itself is in progress
WaitIdle ==
    /\ w_pc = "idle"
    /\ max_wait_seconds = 0
    /\ start_offset = 0
    /\ w_checks = 0
    /\ w_sleeps = 0
    /\ w_state = "None"
    /\ w_outcome = "none"

\* no _extract_locations_section call is in progress
SectionIdle ==
    /\ x_pc = "idle"
    /\ x_text = <<>>
    /\ x_idx = 1
    /\ x_matched = <<>>
    /\ x_result = <<>>

\* no concurrent attempts are in progress
AttemptsIdle ==
    /\ a_pc = <<>>
    /\ a_file_name = <<>>
    /\ a_polls = <<>>
    /\ a_pending = <<>>
    /\ remote_files = {}
    /\ names_issued = 0
    /\ a_uploaded = <<>>
    /\ a_released = <<>>

TailIdle == WaitIdle /\ SectionIdle /\ AttemptsIdle

RestIdle == TitleIdle /\ HandlerIdle /\ TailIdle

\* no call of a single function is in progress
FnIdle == GeocodeIdle /\ SearchIdle /\ TextIdle /\ RestIdle

SummStart ==
    /\ video_error = Null
    /\ file_name = Null
    /\ elapsed = 0
    /\ pending = NoPending
    /\ video_outcome = NoPending
    /\ result = NoResult
    /\ raised = FALSE
    /\ polls = 0
    /\ video_gen_calls = 0
    /\ delete_calls = 0
    /\ delete_failed = FALSE
    /\ meta_gen_calls = 0
    /\ meta_outcome = NoPending
    /\ last_state = Null
    /\ wait_outcome = "none"

SummInit == pc = "start" /\ SummInputs /\ SummStart /\ GeoIdle /\ FnIdle

\* no summarize call is in progress
SummIdle ==
    /\ pc = "idle"
    /\ SummStart
    /\ video_path = Null
    /\ prefer_video = FALSE
    /\ metadata = [is_none |-> TRUE, title |-> "missing", description |-> "missing",
                   other |-> FALSE]

\* summarize: video first if available and preferred
SummarizeEnter ==
    /\ pc = "start"
    /\ pc' = IF VideoRequested(video_path, prefer_video) THEN "v_dispatch" ELSE "meta_check"
    /\ UNCHANGED <<video_path, prefer_video, metadata, video_error, file_name,
                   elapsed, pending, video_outcome, result, raised, polls,
                   video_gen_calls, delete_calls, delete_failed, meta_gen_calls, meta_outcome>>
    /\ UNCHANGED waitObs
    /\ UNCHANGED <<geoVars, fnVars>>

\* summarize_video: loop.run_in_executor(None, _generate) starts _generate,
\* or fails to
VideoDispatch ==
    /\ pc = "v_dispatch"
    /\ \/ /\ pc' = "v_exists"
          /\ UNCHANGED video_outcome
       \/ /\ pc' = "v_returned"
          /\ video_outcome' = Raise("Exception", "executor failure")
    /\ UNCHANGED <<video_path, prefer_video, metadata, video_error, file_name,
                   elapsed, pending, result, raised, polls,
                   video_gen_calls, delete_calls, delete_failed, meta_gen_calls, meta_outcome>>
    /\ UNCHANGED waitObs
    /\ UNCHANGED <<geoVars, fnVars>>

\* _generate: the video file must exist
VideoCheckExists ==
    /\ pc = "v_exists"
    /\ \E exists \in BOOLEAN :
          IF exists
          THEN pc' = "v_upload" /\ UNCHANGED pending
          ELSE /\ pc' = "v_finally"
               /\ pending' = Raise("SummarizationError", "Video file not found")
    /\ UNCHANGED <<video_path, prefer_video, metadata, video_error, file_name,
                   elapsed, video_outcome, result, raised, polls,
                   video_gen_calls, delete_calls, delete_failed, meta_gen_calls, meta_outcome>>
    /\ UNCHANGED waitObs
    /\ UNCHANGED <<geoVars, fnVars>>

\* _generate: _upload_file returns (uri, name), or raises (FileNotFoundError
\* of its own check, or an error of client.files.upload)
VideoUpload ==
    /\ pc = "v_upload"
    /\ \E uploaded \in BOOLEAN :
          IF uploaded
          THEN /\ file_name' = "files/asset"
               /\ elapsed' = 0
               /\ pc' = "v_wait"
               /\ UNCHANGED pending
          ELSE /\ pending' = Raise("SummarizationError", "Failed to upload video")
               /\ pc' = "v_finally"
               /\ UNCHANGED <<file_name, elapsed>>
    /\ UNCHANGED <<video_path, prefer_video, metadata, video_error,
                   video_outcome, result, raised, polls,
                   video_gen_calls, delete_calls, delete_failed, meta_gen_calls, meta_outcome>>
    /\ UNCHANGED waitObs
    /\ UNCHANGED <<geoVars, fnVars>>

\* _wait_for_file_active: one state check, and the sleep after it
VideoPoll ==
    /\ pc = "v_wait"
    /\ polls' = polls + 1
    /\ \/ /\ pending' = Raise("SummarizationError", "Failed waiting for file processing")
          /\ pc' = "v_finally"
          /\ wait_outcome' = "exception"
          /\ UNCHANGED <<elapsed, last_state>>
       \/ \E state \in FileStates :
            LET step == WaitForFileActiveStep(state, elapsed, MAX_WAIT_SECONDS) IN
            /\ last_state' = state
            /\ wait_outcome' = IF step = "sleep" THEN "none" ELSE step
            /\ pc' = CASE step = "active" -> "v_build"
                       [] step = "sleep" -> "v_wait"
                       [] OTHER -> "v_finally"
            /\ pending' = CASE step = "failed" ->
                                 Raise("SummarizationError", "File processing failed")
                            [] step = "timeout" ->
                                 Raise("SummarizationError", "Timeout waiting for file")
                            [] OTHER -> pending
            /\ elapsed' = IF step = "sleep" THEN elapsed + POLL_INTERVAL ELSE elapsed
    /\ UNCHANGED <<video_path, prefer_video, metadata, video_error, file_name,
                   video_outcome, result, raised,
                   video_gen_calls, delete_calls, delete_failed, meta_gen_calls, meta_outcome>>
    /\ UNCHANGED <<geoVars, fnVars>>

\* _generate: prompt, contents and config are built; an error here is the
\* "unexpected error" of the outer except clause
VideoBuildRequest ==
    /\ pc = "v_build"
    /\ \E built \in BOOLEAN :
          IF built
          THEN pc' = "v_generate" /\ UNCHANGED pending
          ELSE /\ pc' = "v_finally"
               /\ pending' = Raise("SummarizationError", "Failed to analyze video")
    /\ UNCHANGED <<video_path, prefer_video, metadata, video_error, file_name,
                   elapsed, video_outcome, result, raised, polls,
                   video_gen_calls, delete_calls, delete_failed, meta_gen_calls, meta_outcome>>
    /\ UNCHANGED waitObs
    /\ UNCHANGED <<geoVars, fnVars>>

\* _generate: client.models.generate_content with the video
VideoGenerate ==
    /\ pc = "v_generate"
    /\ video_gen_calls' = video_gen_calls + 1
    /\ \/ \E text \in ResponseTexts : pending' = Return(text)
       \/ pending' = Raise("SummarizationError", "Gemini API error")
    /\ pc' = "v_finally"
    /\ UNCHANGED <<video_path, prefer_video, metadata, video_error, file_name,
                   elapsed, video_outcome, result, raised, polls,
                   delete_calls, delete_failed, meta_gen_calls, meta_outcome>>
    /\ UNCHANGED waitObs
    /\ UNCHANGED <<geoVars, fnVars>>

\* a cleanup that runs only after a successful generation
VideoFinallyOnSuccessOnly ==
    /\ pc = "v_finally"
    /\ IF Truthy(file_name) /\ pending.kind = "return"
       THEN \E delete_ok \in BOOLEAN :
              /\ delete_calls' = delete_calls + 1
              /\ delete_failed' = ~delete_ok
              /\ video_outcome' = pending
       ELSE /\ video_outcome' = pending
            /\ UNCHANGED <<delete_calls, delete_failed>>
    /\ pc' = "v_returned"
    /\ UNCHANGED <<video_path, prefer_video, metadata, video_error, file_name,
                   elapsed, pending, result, raised, polls,
                   video_gen_calls, meta_gen_calls, meta_outcome>>
    /\ UNCHANGED waitObs
    /\ UNCHANGED <<geoVars, fnVars>>

\* _generate: the finally clause, with _delete_file
VideoFinally ==
    /\ pc = "v_finally"
    /\ IF Truthy(file_name)
       THEN \E delete_ok \in BOOLEAN :
              /\ delete_calls' = delete_calls + 1
              /\ delete_failed' = ~delete_ok
              /\ video_outcome' = FinallyOutcome(pending, DeleteFileRaises(delete_ok))
       ELSE /\ video_outcome' = pending
            /\ UNCHANGED <<delete_calls, delete_failed>>
    /\ pc' = "v_returned"
    /\ UNCHANGED <<video_path, prefer_video, metadata, video_error, file_name,
                   elapsed, pending, result, raised, polls,
                   video_gen_calls, meta_gen_calls, meta_outcome>>
    /\ UNCHANGED waitObs
    /\ UNCHANGED <<geoVars, fnVars>>

\* a summarize that goes on to the metadata fallback after a video success
SummarizeAfterVideoNoReturn ==
    /\ pc = "v_returned"
    /\ IF video_outcome.kind = "return"
       THEN /\ result' = VideoSuccess(video_outcome.val)
            /\ pc' = "meta_check"
            /\ UNCHANGED <<video_error, raised>>
       ELSE /\ video_error' = video_outcome.val
            /\ pc' = "meta_check"
            /\ UNCHANGED <<result, raised>>
    /\ UNCHANGED <<video_path, prefer_video, metadata, file_name,
                   elapsed, pending, video_outcome, polls,
                   video_gen_calls, delete_calls, delete_failed, meta_gen_calls, meta_outcome>>
    /\ UNCHANGED waitObs
    /\ UNCHANGED <<geoVars, fnVars>>

\* summarize: summarize_video returned or raised
SummarizeAfterVideo ==
    /\ pc = "v_returned"
    /\ IF video_outcome.kind = "return"
       THEN /\ result' = VideoSuccess(video_outcome.val)
            /\ pc' = "done"
            /\ UNCHANGED <<video_error, raised>>
       ELSE IF SummarizeCatches(video_outcome.cls)
            THEN /\ video_error' = video_outcome.val
                 /\ pc' = "meta_check"
                 /\ UNCHANGED <<result, raised>>
            ELSE /\ raised' = TRUE
                 /\ pc' = "done"
                 /\ UNCHANGED <<video_error, result>>
    /\ UNCHANGED <<video_path, prefer_video, metadata, file_name,
                   elapsed, pending, video_outcome, polls,
                   video_gen_calls, delete_calls, delete_failed, meta_gen_calls, meta_outcome>>
    /\ UNCHANGED waitObs
    /\ UNCHANGED <<geoVars, fnVars>>

\* summarize: the metadata fallback is entered, or the call ends with the
\* final failure
SummarizeMetaCheck ==
    /\ pc = "meta_check"
    /\ IF MetadataEligible(metadata)
       THEN /\ pc' = "m_generate"
            /\ meta_gen_calls' = meta_gen_calls + 1
            /\ UNCHANGED result
       ELSE /\ pc' = "done"
            /\ result' = FinalFailure(video_error)
            /\ UNCHANGED meta_gen_calls
    /\ UNCHANGED <<video_path, prefer_video, metadata, video_error, file_name,
                   elapsed, pending, video_outcome, raised, polls,
                   video_gen_calls, delete_calls, delete_failed, meta_outcome>>
    /\ UNCHANGED waitObs
    /\ UNCHANGED <<geoVars, fnVars>>

\* summarize_from_metadata returns a text, raises SummarizationError (prompt
\* or generation failed), or its executor raises
MetaGenerate ==
    /\ pc = "m_generate"
    /\ \/ \E text \in ResponseTexts : meta_outcome' = Return(text)
       \/ meta_outcome' = Raise("SummarizationError", "Failed to generate summary")
       \/ meta_outcome' = Raise("Exception", "executor failure")
    /\ result' = IF meta_outcome'.kind = "return"
                 THEN MetadataSuccess(meta_outcome'.val)
                 ELSE MetadataFailure(meta_outcome'.cls, meta_outcome'.val)
    /\ pc' = "done"
    /\ UNCHANGED <<video_path, prefer_video, metadata, video_error, file_name,
                   elapsed, pending, video_outcome, raised, polls,
                   video_gen_calls, delete_calls, delete_failed, meta_gen_calls>>
    /\ UNCHANGED waitObs
    /\ UNCHANGED <<geoVars, fnVars>>

SummNext ==
    \/ SummarizeEnter
    \/ VideoDispatch
    \/ VideoCheckExists
    \/ VideoUpload
    \/ VideoPoll
    \/ VideoBuildRequest
    \/ VideoGenerate
    \/ VideoFinally
    \/ SummarizeAfterVideo
    \/ SummarizeMetaCheck
    \/ MetaGenerate

SpecSumm == SummInit /\ [][SummNext]_vars

(***************************************************************************)
(* Summarizer: properties of one summarize call                            *)
(***************************************************************************)
\* the call has returned or raised
SummDone == pc = "done"

\* summarize_video was awaited and has ended
VideoEnded == video_outcome.kind /= "none"

\* summarize_video was awaited and raised
VideoFailed == video_outcome.kind = "raise"

\* _generate is running, its finally clause included
VideoRunning == pc \in {"v_dispatch", "v_exists", "v_upload", "v_wait", "v_build",
                        "v_generate", "v_finally"}

Methods == {"video_analysis", "metadata_analysis", "failed", "none"}

\* C1: summarize never raises: whatever the arguments and whatever upload,
\* state polling, video generation, metadata generation, asset deletion or
\* the executor do, no exception leaves the call, the call can always take
\* its next step until it is done, and it is done with a result record
\* (summary, method, success, error).
C1_NeverRaises ==
    /\ ~raised
    /\ (~SummDone => ENABLED SummNext)
    /\ (SummDone =>
          /\ result.method \in Methods
          /\ result.success \in BOOLEAN
          /\ result.summary \in ResponseTexts
          /\ DOMAIN result = {"summary", "method", "success", "error"})

\* C1 witness: the executor failed for the video attempt and for the
\* metadata attempt, and the call still returned a record
C1_Witness ==
    /\ SummDone
    /\ video_outcome = Raise("Exception", "executor failure")
    /\ meta_outcome = Raise("Exception", "executor failure")
    /\ result.method = "failed"

\* C2: in every result summarize returns, success = true implies that the
\* summary is present (not None), also when generation succeeded with a
\* response that carries no text.
C2_SuccessImpliesSummary ==
    (SummDone /\ result.success) => result.summary /= Null

\* C3: in one video attempt client.files.delete is called exactly once if
\* the upload returned an asset name and never otherwise, on every exit path
\* of _generate; it is never called before the try block has ended.
C3_ReleaseExactlyOnce ==
    /\ delete_calls <= 1
    /\ (VideoRunning => delete_calls = 0)
    /\ (VideoEnded => delete_calls = IF Truthy(file_name) THEN 1 ELSE 0)
    /\ (SummDone => delete_calls = IF Truthy(file_name) THEN 1 ELSE 0)

\* C3 witness: the wait timed out after an upload, and the asset was
\* released once
C3_Witness ==
    /\ VideoEnded
    /\ video_outcome.val = "Timeout waiting for file"
    /\ Truthy(file_name)
    /\ delete_calls = 1

\* C4: a failing delete never changes the outcome of the attempt: what
\* leaves _generate is what its try block ended with (the generated text, or
\* the original error), the delete failure itself is never raised, and
\* summarize acts on that original outcome.
C4_DeleteFailureKeepsOutcome ==
    delete_failed =>
        /\ video_outcome = pending
        /\ video_outcome.val /= "delete failed"
        /\ (SummDone /\ pending.kind = "return" => result = VideoSuccess(pending.val))
        /\ (pc \in {"meta_check", "m_generate", "done"} /\ pending.kind = "raise"
              => video_error = pending.val)

\* C4 witness: the delete failed after a successful generation and the text
\* was returned
C4_Witness ==
    /\ SummDone
    /\ delete_failed
    /\ pending = Return("summary text")
    /\ result.summary = "summary text"

\* C5: when the video attempt is requested and the metadata is eligible,
\* summarize_from_metadata is called only once summarize_video has ended
\* with a failure, its asset release included; never while the video attempt
\* runs, and never after a video attempt that succeeded.
C5_VideoBeforeMetadata ==
    /\ [](VideoRunning => meta_gen_calls = 0)
    /\ [](video_outcome.kind = "return" => meta_gen_calls = 0)
    /\ [][(meta_gen_calls' /= meta_gen_calls /\ VideoRequested(video_path, prefer_video))
            => /\ VideoFailed
               /\ ~VideoRunning
               /\ (Truthy(file_name) => delete_calls = 1)]_vars

\* C5 witness: both strategies were eligible, the video attempt failed after
\* an upload, and the metadata generation was started
C5_Witness ==
    /\ VideoRequested(video_path, prefer_video)
    /\ MetadataEligible(metadata)
    /\ VideoFailed
    /\ delete_calls = 1
    /\ meta_gen_calls = 1

\* C6: when the video attempt failed (at any step) and the metadata has a
\* title or a description and the metadata generation succeeds, the result
\* is method = metadata_analysis, success = true, with no error: the video
\* failure is not surfaced.
C6_FallbackHidesVideoFailure ==
    (SummDone /\ VideoFailed /\ MetadataEligible(metadata) /\ meta_outcome.kind = "return")
        => result = [summary |-> meta_outcome.val, method |-> "metadata_analysis",
                     success |-> TRUE, error |-> Absent]

\* C6 witness: the video generation failed and the metadata generation
\* returned a text
C6_Witness ==
    /\ SummDone
    /\ video_outcome = Raise("SummarizationError", "Gemini API error")
    /\ meta_outcome = Return("summary text")

\* C7 as stated: when the metadata is not eligible and the video attempt was
\* made and failed, the result is method = none, success = false, with the
\* captured video error.
C7_Original ==
    (SummDone /\ VideoFailed /\ ~MetadataEligible(metadata))
        => (result.method = "none" /\ ~result.success /\ result.error = video_error)

\* C7 amended: when the metadata is not eligible and the video attempt was
\* made and failed, the result is method = failed, success = false, no
\* summary, and error equal to the captured video error.
C7_VideoFailureIsFinal ==
    (SummDone /\ VideoFailed /\ ~MetadataEligible(metadata))
        => /\ result.method = "failed"
           /\ ~result.success
           /\ result.summary = Null
           /\ result.error = video_outcome.val
           /\ result.error = video_error

\* C7 witness: the upload failed and there is no metadata at all
C7_Witness ==
    /\ SummDone
    /\ metadata.is_none
    /\ video_outcome = Raise("SummarizationError", "Failed to upload video")
    /\ result.method = "failed"

\* a generation strategy was attempted and failed
SomeStrategyFailed == VideoFailed \/ meta_outcome.kind = "raise"

\* no generation strategy was attempted
NoStrategyAttempted == ~VideoEnded /\ meta_gen_calls = 0

\* C8: every success = false result carries an error string, its method is
\* failed exactly when a strategy (video or metadata) was attempted and
\* failed, and none exactly when no strategy was attempted, which is when
\* the video was not requested and the metadata has neither title nor
\* description.
C8_FailureIsTagged ==
    (SummDone /\ ~result.success) =>
        /\ Truthy(result.error)
        /\ result.error /= Absent
        /\ result.method \in {"failed", "none"}
        /\ (result.method = "failed" <=> SomeStrategyFailed)
        /\ (result.method = "none" <=> NoStrategyAttempted)
        /\ (NoStrategyAttempted <=>
              (~VideoRequested(video_path, prefer_video) /\ ~MetadataEligible(metadata)))

\* C8 witness: nothing could be attempted (an empty path, a metadata dict
\* without title and description) and the result is tagged none
C8_Witness ==
    /\ SummDone
    /\ video_path = ""
    /\ ~metadata.is_none
    /\ result.method = "none"
    /\ result.error = "No content available for summarization"

\* _wait_for_file_active has ended
WaitEnded == wait_outcome /= "none"

\* what holds of the three outcomes a returned state decides, and of the
\* end of the wait
WaitDecisions ==
    /\ [](wait_outcome = "active" => last_state = "ACTIVE")
    /\ [](wait_outcome = "failed" => last_state = "FAILED")
    /\ [](wait_outcome = "timeout" =>
            /\ last_state \notin {"ACTIVE", "FAILED", Null}
            /\ elapsed >= MAX_WAIT_SECONDS)
    /\ [](pc \in {"v_build", "v_generate"} => wait_outcome = "active")
    /\ [][(last_state' = "FAILED" /\ polls' /= polls) => wait_outcome' = "failed"]_vars
    /\ [][(last_state' = "ACTIVE" /\ polls' /= polls) => wait_outcome' = "active"]_vars
    /\ [][WaitEnded => (polls' = polls /\ wait_outcome' = wait_outcome)]_vars

\* C14 as stated: _wait_for_file_active has exactly three outcomes, each
\* terminal: success on a check that observed ACTIVE, a generation error on
\* the first check that observes FAILED, a timeout error when a check
\* observes another state with the wait at its bound; no check follows an
\* outcome and no success is reported without an ACTIVE observation.
C14_Original ==
    /\ [](WaitEnded => wait_outcome \in {"active", "failed", "timeout"})
    /\ WaitDecisions

\* C14 amended: _wait_for_file_active ends in one of four ways, each
\* terminal: the three of the claim, decided by a state that files.get
\* returned, and the exception of a files.get call that raised, which
\* leaves the function as it is.  No check follows an outcome and no success
\* is reported without an ACTIVE observation.
C14_WaitOutcomes ==
    /\ [](wait_outcome \in {"none", "active", "failed", "timeout", "exception"})
    /\ [](wait_outcome = "exception" =>
            pending = Raise("SummarizationError", "Failed waiting for file processing"))
    /\ WaitDecisions

\* C14 witness: the wait timed out on a state that is neither ACTIVE nor
\* FAILED, after the checks of the whole bound
C14_Witness ==
    /\ wait_outcome = "timeout"
    /\ last_state = "PROCESSING"
    /\ elapsed = MAX_WAIT_SECONDS
    /\ polls = (MAX_WAIT_SECONDS \div POLL_INTERVAL) + 1

(***************************************************************************)
(* Geocoder: values                                                        *)
(***************************************************************************)
\* the limit of extract_locations_from_text: unique_locations[:10]
MAX_LOCATIONS == 10

\* the longest list of names drawn from ShortNames
MaxNames == 3

\* Location names are numbered.  Name 0 stands for a name that
\* _is_valid_location rejects after cleaning; 1 .. MAX_LOCATIONS + 1 are
\* places with pairwise distinct rounded coordinates; the two names after
\* them are a second name of place 1 (other raw coordinates, same rounded
\* key) and a place on the latitude of place 2 at another longitude.
InvalidName == 0

DistinctNames == 1 .. (MAX_LOCATIONS + 1)

SamePlaceAsOne == MAX_LOCATIONS + 2

SameLatitudeAsTwo == MAX_LOCATIONS + 3

ShortNames == {InvalidName, 1, 2, SamePlaceAsOne, SameLatitudeAsTwo}

\* the coordinates the geocoding service has for a name, in units of
\* 0.0001 degree; no value ends in 5, so rounding to 3 decimals never meets
\* a tie
LatOf(n) ==
    CASE n = SamePlaceAsOne -> 96
      [] n = SameLatitudeAsTwo -> 203
      [] OTHER -> 100 * n + 3

LngOf(n) ==
    CASE n = SamePlaceAsOne -> -48
      [] n = SameLatitudeAsTwo -> -92
      [] OTHER -> 0 - (50 * n) - 2

\* round(x, 3) of a coordinate given in units of 0.0001 degree: the nearest
\* multiple of 0.001 degree, in units of 0.001 degree
Round3(u) == (u + 5) \div 10

\* every sequence over S of length at most n
SeqsUpTo(S, n) == UNION {[1..k -> S] : k \in 0..n}

\* one more name than the limit, every name a distinct place
LongList == [i \in DistinctNames |-> i]

InputLists == SeqsUpTo(ShortNames, MaxNames) \cup {LongList}

\* what one geocode call can meet: whether the request, response.json() or
\* float() raised; the HTTP status code; the "status" of the body; whether
\* "results" is non-empty; whether the first result has "lat" and "lng"
GeoResponses ==
    [exception : BOOLEAN,
     http : {200, 500},
     status : {"OK", "ZERO_RESULTS", "REQUEST_DENIED", "OVER_QUERY_LIMIT", ""},
     results : BOOLEAN,
     lat : BOOLEAN,
     lng : BOOLEAN]

(***************************************************************************)
(* Geocoder: the pure decisions of the code                                *)
(***************************************************************************)
\* _is_valid_location of the cleaned name
IsValidLocation(n) == n /= InvalidName

\* a geocode whose try block does not cover a failing request
GeocodeRaisesOnException(n, resp) == IsValidLocation(n) /\ resp.exception

\* geocode lets an exception out: never, its try/except covers the request,
\* the parsing of the body and the conversion of the coordinates
GeocodeRaises(n, resp) == FALSE

\* a geocode that does not test the presence of lat and lng
GeocodeNoCoordinateCheck(n, resp) ==
    IF ~IsValidLocation(n) THEN <<>>
    ELSE IF resp.exception THEN <<>>
    ELSE IF resp.http /= 200 THEN <<>>
    ELSE IF resp.status /= "OK" THEN <<>>
    ELSE IF ~resp.results THEN <<>>
    ELSE <<[name |-> n, latitude |-> LatOf(n), longitude |-> LngOf(n)]>>

\* geocode, past its API key check: the Location for a name under a response
\* of the service, as a sequence of no or one Location
Geocode(n, resp) ==
    IF ~IsValidLocation(n) THEN <<>>
    ELSE IF resp.exception THEN <<>>
    ELSE IF resp.http /= 200 THEN <<>>
    ELSE IF resp.status /= "OK" THEN <<>>
    ELSE IF ~resp.results THEN <<>>
    ELSE IF ~resp.lat \/ ~resp.lng THEN <<>>
    ELSE <<[name |-> n, latitude |-> LatOf(n), longitude |-> LngOf(n)]>>

\* geocode: without an API key nothing is looked up
GeocodeCall(key, n, resp) == IF ~key THEN <<>> ELSE Geocode(n, resp)

\* coord_key of geocode_multiple
CoordKey(loc) == <<Round3(loc.latitude), Round3(loc.longitude)>>

\* a geocode_multiple that appends before and after its duplicate check
AppendAcceptedTwice(locs, seen, loc) ==
    IF CoordKey(loc) \notin seen THEN Append(Append(locs, loc), loc) ELSE Append(locs, loc)

\* a geocode_multiple without its duplicate check
AppendAcceptedNoCheck(locs, seen, loc) == Append(locs, loc)

\* geocode_multiple: the list after a successful lookup
AppendAccepted(locs, seen, loc) ==
    IF CoordKey(loc) \notin seen THEN Append(locs, loc) ELSE locs

\* geocode_multiple: the keys seen after a successful lookup
AddSeen(seen, loc) == seen \cup {CoordKey(loc)}

(***************************************************************************)
(* Geocoder: the steps of one geocode_multiple call                        *)
(***************************************************************************)
GeoInit ==
    /\ gpc = "start"
    /\ api_key \in BOOLEAN
    /\ location_names \in InputLists
    /\ idx = 0
    /\ locations = <<>>
    /\ seen_coords = {}
    /\ geo_result = <<>>
    /\ successes = <<>>
    /\ lookups = 0
    /\ delays = 0
    /\ geo_raised = FALSE
    /\ SummIdle
    /\ FnIdle

\* a geocode_multiple without its API key check
GeocodeMultipleEnterNoKeyCheck ==
    /\ gpc = "start"
    /\ gpc' = "loop"
    /\ UNCHANGED <<api_key, location_names, idx, locations, seen_coords,
                   geo_result, successes, lookups, delays, geo_raised>>
    /\ UNCHANGED <<summVars, fnVars>>

\* geocode_multiple: without an API key the batch is empty
GeocodeMultipleEnter ==
    /\ gpc = "start"
    /\ IF ~api_key
       THEN gpc' = "done" /\ geo_result' = <<>>
       ELSE gpc' = "loop" /\ UNCHANGED geo_result
    /\ UNCHANGED <<api_key, location_names, idx, locations, seen_coords,
                   successes, lookups, delays, geo_raised>>
    /\ UNCHANGED <<summVars, fnVars>>

\* geocode_multiple: one pass of the for loop: the delay, the lookup, the
\* duplicate check
GeocodeMultipleStep ==
    /\ gpc = "loop"
    /\ idx < Len(location_names)
    /\ \E resp \in GeoResponses :
         LET name == location_names[idx + 1]
             found == GeocodeCall(api_key, name, resp)
         IN  /\ delays' = IF locations /= <<>> THEN delays + 1 ELSE delays
             /\ lookups' = lookups + 1
             /\ IF GeocodeRaises(name, resp)
                THEN /\ geo_raised' = TRUE
                     /\ gpc' = "done"
                     /\ UNCHANGED <<successes, locations, seen_coords>>
                ELSE /\ successes' = successes \o found
                     /\ IF found /= <<>>
                        THEN /\ locations' = AppendAccepted(locations, seen_coords, found[1])
                             /\ seen_coords' = AddSeen(seen_coords, found[1])
                        ELSE UNCHANGED <<locations, seen_coords>>
                     /\ UNCHANGED <<gpc, geo_raised>>
    /\ idx' = idx + 1
    /\ UNCHANGED <<api_key, location_names, geo_result>>
    /\ UNCHANGED <<summVars, fnVars>>

\* geocode_multiple: the loop is over
GeocodeMultipleReturn ==
    /\ gpc = "loop"
    /\ idx = Len(location_names)
    /\ gpc' = "done"
    /\ geo_result' = locations
    /\ UNCHANGED <<api_key, location_names, idx, locations, seen_coords,
                   successes, lookups, delays, geo_raised>>
    /\ UNCHANGED <<summVars, fnVars>>

GeoNext ==
    \/ GeocodeMultipleEnter
    \/ GeocodeMultipleStep
    \/ GeocodeMultipleReturn

SpecGeo == GeoInit /\ [][GeoNext]_vars

(***************************************************************************)
(* Geocoder: properties of one geocode_multiple call                       *)
(***************************************************************************)
GeoDone == gpc = "done"

\* two locations round to the same coordinates at 3 decimals
SameRoundedKey(a, b) ==
    /\ Round3(a.latitude) = Round3(b.latitude)
    /\ Round3(a.longitude) = Round3(b.longitude)

\* every name was looked up with success, and to distinct rounded coordinates
AllDistinctSuccesses ==
    /\ Len(successes) = Len(location_names)
    /\ \A i, j \in 1..Len(successes) :
          i /= j => ~SameRoundedKey(successes[i], successes[j])

FirstOfKeyPositions(s) ==
    {i \in 1..Len(s) : \A j \in 1..(i - 1) : ~SameRoundedKey(s[j], s[i])}

\* s restricted to the positions in P, in the order of s
Restrict(s, P) ==
    LET F[i \in 0..Len(s)] ==
            IF i = 0 THEN <<>>
            ELSE IF i \in P THEN Append(F[i - 1], s[i]) ELSE F[i - 1]
    IN  F[Len(s)]

\* C10: the list geocode_multiple returns is the sequence of successful
\* lookups, in input order, without every location whose rounded key
\* (latitude and longitude at 3 decimals) an earlier one has: no two
\* returned locations share a rounded key, the first name reaching a key is
\* the one kept, and the kept ones are in input order.
C10_FirstOfEachKeyInOrder ==
    GeoDone =>
        /\ geo_result = Restrict(successes, FirstOfKeyPositions(successes))
        /\ \A i, j \in 1..Len(geo_result) :
              i /= j => ~SameRoundedKey(geo_result[i], geo_result[j])

\* C10 witness: three lookups succeeded, the second a duplicate of the
\* first under another name; the first name and the third are returned,
\* though the third shares its latitude with nothing but its own place
C10_Witness ==
    /\ GeoDone
    /\ location_names = <<SamePlaceAsOne, 1, SameLatitudeAsTwo>>
    /\ Len(successes) = 3
    /\ Len(geo_result) = 2
    /\ geo_result[1].name = SamePlaceAsOne
    /\ geo_result[2].name = SameLatitudeAsTwo

\* every location geocode returned has its rounded key in the returned list
SuccessesReturned ==
    \A i \in 1..Len(successes) :
        \E j \in 1..Len(geo_result) : SameRoundedKey(successes[i], geo_result[j])

\* C11: a lookup that yields no location (invalid name, non-200 HTTP
\* status, non-OK API status, empty results, missing coordinates, transport
\* exception) never aborts the batch: no exception leaves geocode_multiple,
\* every name consumed by the loop was looked up, and when the call is done
\* with an API key every input name was looked up and the successes are
\* returned.
C11_FailedLookupDoesNotAbort ==
    /\ ~geo_raised
    /\ lookups = idx
    /\ Len(successes) <= lookups
    /\ (GeoDone /\ api_key =>
          /\ lookups = Len(location_names)
          /\ geo_result = locations
          /\ SuccessesReturned)

\* C11 witness: three valid names, the first two lookups gave no location,
\* the third was still looked up and is returned
C11_Witness ==
    /\ GeoDone
    /\ location_names = <<1, 2, SameLatitudeAsTwo>>
    /\ lookups = 3
    /\ Len(successes) = 1
    /\ Len(geo_result) = 1
    /\ geo_result[1].name = SameLatitudeAsTwo

\* C12: without an API key geocode_multiple returns the empty list for any
\* input and takes no per-name step: no geocode call (so no cleaning, no
\* validation, no request) and no delay.
C12_NoKeyNoWork ==
    ~api_key =>
        /\ lookups = 0
        /\ delays = 0
        /\ idx = 0
        /\ successes = <<>>
        /\ gpc \in {"start", "done"}
        /\ (GeoDone => geo_result = <<>>)

\* C12 witness: three names were given without an API key and the call is
\* done
C12_Witness ==
    /\ GeoDone
    /\ ~api_key
    /\ Len(location_names) = 3
    /\ geo_result = <<>>

(***************************************************************************)
(* Geocoder: one geocode call                                              *)
(***************************************************************************)
GeocodeInit ==
    /\ g_pc = "start"
    /\ g_key \in BOOLEAN
    /\ g_name \in ShortNames
    /\ g_response \in GeoResponses
    /\ g_result = <<>>
    /\ SummIdle
    /\ GeoIdle
    /\ SearchIdle
    /\ TextIdle
    /\ RestIdle

\* geocode, from its call to its return
GeocodeReturn ==
    /\ g_pc = "start"
    /\ g_pc' = "done"
    /\ g_result' = GeocodeCall(g_key, g_name, g_response)
    /\ UNCHANGED <<g_key, g_name, g_response>>
    /\ UNCHANGED <<summVars, geoVars, searchVars, textVars, restVars>>

GeocodeNext == GeocodeReturn

SpecGeocode == GeocodeInit /\ [][GeocodeNext]_vars

\* the response has all a Location is built from
UsableResponse(resp) ==
    /\ ~resp.exception
    /\ resp.http = 200
    /\ resp.status = "OK"
    /\ resp.results
    /\ resp.lat
    /\ resp.lng

\* C13: every Location geocode produces comes from a response with HTTP
\* 200, status OK, at least one result and both lat and lng in the first
\* result, and carries those coordinates; in every other case (a response
\* lacking a coordinate included) no Location is built and the result is
\* nothing.
C13_LocationOnlyFromCoordinates ==
    /\ g_result /= <<>> =>
          /\ g_pc = "done"
          /\ UsableResponse(g_response)
          /\ Len(g_result) = 1
          /\ g_result[1].latitude = LatOf(g_name)
          /\ g_result[1].longitude = LngOf(g_name)
    /\ (g_pc = "done" /\ ~UsableResponse(g_response)) => g_result = <<>>

\* C13 witness: a Location was produced
C13_Witness ==
    /\ g_pc = "done"
    /\ g_result /= <<>>
    /\ g_result[1].name = SamePlaceAsOne

(***************************************************************************)
(* search_locations_with_ai: values                                        *)
(***************************************************************************)
\* the most reels in reels_data
MaxReels == 2

\* the most items in the JSON list of a response
MaxMatches == 2

\* str.lower() of the location names and of the words of the model
Lower(name) ==
    CASE name = "Paris" -> "paris"
      [] name = "PARIS" -> "paris"
      [] name = "Rome" -> "rome"
      [] name = "Oslo" -> "oslo"
      [] name = "Tokyo" -> "tokyo"
      [] name = "France" -> "france"
      [] name = "Japan" -> "japan"
      [] name = "City" -> "city"
      [] name = "None" -> "none"
      [] name = "Studio" -> "studio"
      [] name = "Various" -> "various"
      [] name = "Title" -> "title"
      [] name = "Locations" -> "locations"
      [] name = "Location" -> "location"
      [] OTHER -> name

\* the reels of the model, each with its id and the names of its locations
\* (the other fields of a reel and of a location are copied as they are):
\* two reels, a third with the id of the first, and one without locations
Reels ==
    {[id |-> "r1", locations |-> <<"Paris", "Rome">>],
     [id |-> "r2", locations |-> <<"paris">>],
     [id |-> "r1", locations |-> <<"Oslo">>],
     [id |-> "r3", locations |-> <<>>]}

\* the items of the JSON list: objects with reel_id and location_name
\* (location_name null in one), and an item that is no object
MatchItems ==
    {[obj |-> TRUE, reel_id |-> "r1", location_name |-> "PARIS"],
     [obj |-> TRUE, reel_id |-> "r1", location_name |-> "Oslo"],
     [obj |-> TRUE, reel_id |-> "r2", location_name |-> "PARIS"],
     [obj |-> TRUE, reel_id |-> "r9", location_name |-> "Rome"],
     [obj |-> TRUE, reel_id |-> "r1", location_name |-> Null],
     [obj |-> FALSE, reel_id |-> "", location_name |-> ""]}

\* what a piece of the response text holds: a JSON list, a JSON object, a
\* JSON number, or text that is no JSON
NoPayload == [kind |-> "none", items |-> <<>>]

Payloads ==
    {[kind |-> "list", items |-> items] : items \in SeqsUpTo(MatchItems, MaxMatches)}
    \cup {[kind |-> k, items |-> <<>>] : k \in {"object", "number", "garbage"}}

\* the response text is a sequence of pieces: the code fence ```, a newline,
\* a blank, a word (the language tag, or prose), and a payload
Fence == [t |-> "fence", v |-> NoPayload]

Newline == [t |-> "nl", v |-> NoPayload]

Blank == [t |-> "ws", v |-> NoPayload]

Word == [t |-> "word", v |-> NoPayload]

Payload(p) == [t |-> "payload", v |-> p]

\* the ways the model wraps a payload into a response text
Wrappings(p) ==
    {<<Payload(p)>>,
     <<Blank, Payload(p), Newline>>,
     <<Fence, Word, Newline, Payload(p), Newline, Fence>>,
     <<Fence, Newline, Payload(p), Newline, Fence, Newline>>,
     <<Fence, Word, Newline, Payload(p)>>,
     <<Fence, Payload(p), Fence>>,
     <<Fence, Payload(p), Newline, Fence>>,
     <<Word, Newline, Fence, Word, Newline, Payload(p), Newline, Fence>>,
     <<Fence, Word, Newline, Payload(p), Newline, Fence, Newline, Word>>}

\* response.text: None, or a text
ResponseTextInputs ==
    {[is_none |-> TRUE, tokens |-> <<>>]}
    \cup {[is_none |-> FALSE, tokens |-> w] : w \in UNION {Wrappings(p) : p \in Payloads}}

(***************************************************************************)
(* search_locations_with_ai: the pure decisions of the code                *)
(***************************************************************************)
IsSpace(tok) == tok.t \in {"ws", "nl"}

\* str.strip()
RECURSIVE LStrip(_)
LStrip(text) ==
    IF text /= <<>> /\ IsSpace(Head(text)) THEN LStrip(Tail(text)) ELSE text

RECURSIVE RStrip(_)
RStrip(text) ==
    IF text /= <<>> /\ IsSpace(text[Len(text)])
    THEN RStrip(SubSeq(text, 1, Len(text) - 1))
    ELSE text

Strip(text) == LStrip(RStrip(text))

HasNewline(text) == \E i \in 1..Len(text) : text[i].t = "nl"

\* text.split('\n', 1)[1]
AfterFirstNewline(text) ==
    LET first == CHOOSE i \in 1..Len(text) :
                    /\ text[i].t = "nl"
                    /\ \A j \in 1..(i - 1) : text[j].t /= "nl"
    IN  SubSeq(text, first + 1, Len(text))

\* the clean-up of the response: the error it raises ("none" if none) and
\* the cleaned text
CleanResponse(resp) ==
    IF resp.is_none THEN [err |-> "AttributeError", tokens |-> <<>>]
    ELSE LET stripped == Strip(resp.tokens) IN
         IF stripped /= <<>> /\ stripped[1].t = "fence"
         THEN IF ~HasNewline(stripped)
              THEN [err |-> "IndexError", tokens |-> <<>>]
              ELSE LET rest == AfterFirstNewline(stripped)
                       body == IF rest /= <<>> /\ rest[Len(rest)].t = "fence"
                               THEN SubSeq(rest, 1, Len(rest) - 1)
                               ELSE rest
                   IN  [err |-> "none", tokens |-> Strip(body)]
         ELSE [err |-> "none", tokens |-> stripped]

\* json.loads: the error it raises and the value parsed
JsonLoads(text) ==
    IF Len(text) = 1 /\ text[1].t = "payload" /\ text[1].v.kind /= "garbage"
    THEN [err |-> "none", value |-> text[1].v]
    ELSE [err |-> "JSONDecodeError", value |-> NoPayload]

\* the index of the first reel with this id, 0 if there is none
FindReel(reels, id) ==
    IF \E i \in 1..Len(reels) : reels[i].id = id
    THEN CHOOSE i \in 1..Len(reels) :
            /\ reels[i].id = id
            /\ \A j \in 1..(i - 1) : reels[j].id /= id
    ELSE 0

\* the index of the first location of the reel with this name, up to case;
\* 0 if there is none
FindLocation(reel, name) ==
    IF \E i \in 1..Len(reel.locations) : Lower(reel.locations[i]) = Lower(name)
    THEN CHOOSE i \in 1..Len(reel.locations) :
            /\ Lower(reel.locations[i]) = Lower(name)
            /\ \A j \in 1..(i - 1) : Lower(reel.locations[j]) /= Lower(name)
    ELSE 0

\* a match that takes the first location of the reel whatever its name
MatchOneAnyLocation(reels, item) ==
    IF ~item.obj THEN [err |-> "AttributeError", entries |-> <<>>]
    ELSE LET r == FindReel(reels, item.reel_id) IN
         IF r = 0 \/ reels[r].locations = <<>> THEN [err |-> "none", entries |-> <<>>]
         ELSE [err |-> "none",
               entries |-> <<[name |-> reels[r].locations[1], reel_id |-> item.reel_id]>>]

\* the body of `for match in matches`: the error it raises and the entries
\* it appends
MatchOne(reels, item) ==
    IF ~item.obj THEN [err |-> "AttributeError", entries |-> <<>>]
    ELSE LET r == FindReel(reels, item.reel_id) IN
         IF r = 0 \/ reels[r].locations = <<>> THEN [err |-> "none", entries |-> <<>>]
         ELSE IF item.location_name = Null
              THEN [err |-> "AttributeError", entries |-> <<>>]
              ELSE LET l == FindLocation(reels[r], item.location_name) IN
                   IF l = 0 THEN [err |-> "none", entries |-> <<>>]
                   ELSE [err |-> "none",
                         entries |-> <<[name |-> reels[r].locations[l],
                                        reel_id |-> item.reel_id]>>]

\* `for match in matches` over a JSON list
RECURSIVE MatchAll(_, _)
MatchAll(reels, items) ==
    IF items = <<>> THEN [err |-> "none", entries |-> <<>>]
    ELSE LET first == MatchOne(reels, Head(items)) IN
         IF first.err /= "none" THEN first
         ELSE LET rest == MatchAll(reels, Tail(items)) IN
              IF rest.err /= "none" THEN rest
              ELSE [err |-> "none", entries |-> first.entries \o rest.entries]

\* the loop over the parsed value: a number cannot be iterated, the keys of
\* an object are strings without .get
MatchValue(reels, value) ==
    CASE value.kind = "number" -> [err |-> "TypeError", entries |-> <<>>]
      [] value.kind = "object" -> [err |-> "AttributeError", entries |-> <<>>]
      [] OTHER -> MatchAll(reels, value.items)

\* the try block of the parsing: the error it raises and the entries built
ParseAndMatch(reels, resp) ==
    LET cleaned == CleanResponse(resp) IN
    IF cleaned.err /= "none" THEN [err |-> cleaned.err, entries |-> <<>>]
    ELSE LET parsed == JsonLoads(cleaned.tokens) IN
         IF parsed.err /= "none" THEN [err |-> parsed.err, entries |-> <<>>]
         ELSE MatchValue(reels, parsed.value)

\* an except clause that catches the JSON error only
ParseErrorEscapesUnlessJson(err) == err /= "JSONDecodeError"

\* an error of the try block leaves the function: never, `except Exception`
\* catches it
ParseErrorEscapes(err) == FALSE

\* reels_context is empty: no reel has locations
NoReelsContext(reels) == \A i \in 1..Len(reels) : reels[i].locations = <<>>

(***************************************************************************)
(* search_locations_with_ai: the steps of one call                         *)
(***************************************************************************)
SearchInit ==
    /\ s_pc = "start"
    /\ s_key \in BOOLEAN
    /\ reels_data \in SeqsUpTo(Reels, MaxReels)
    /\ response_text = [is_none |-> TRUE, tokens |-> <<>>]
    /\ s_result = <<>>
    /\ s_raised = "none"
    /\ SummIdle
    /\ GeoIdle
    /\ GeocodeIdle
    /\ TextIdle
    /\ RestIdle

\* the API key check and the building of reels_context
SearchEnter ==
    /\ s_pc = "start"
    /\ IF ~s_key
       THEN s_pc' = "done" /\ s_raised' = "SummarizationError"
       ELSE /\ s_pc' = IF NoReelsContext(reels_data) THEN "done" ELSE "generate"
            /\ UNCHANGED s_raised
    /\ UNCHANGED <<s_key, reels_data, response_text, s_result>>
    /\ UNCHANGED <<summVars, geoVars, geocodeVars, textVars, restVars>>

\* _search in the executor: it returns response.text or raises
SearchGenerate ==
    /\ s_pc = "generate"
    /\ \/ /\ s_pc' = "done"
          /\ s_raised' = "SummarizationError"
          /\ UNCHANGED response_text
       \/ \E text \in ResponseTextInputs :
            /\ response_text' = text
            /\ s_pc' = "parse"
            /\ UNCHANGED s_raised
    /\ UNCHANGED <<s_key, reels_data, s_result>>
    /\ UNCHANGED <<summVars, geoVars, geocodeVars, textVars, restVars>>

\* the parsing of the response and the building of the result
SearchParse ==
    /\ s_pc = "parse"
    /\ LET out == ParseAndMatch(reels_data, response_text) IN
       IF out.err = "none"
       THEN s_result' = out.entries /\ UNCHANGED s_raised
       ELSE IF ParseErrorEscapes(out.err)
            THEN s_raised' = out.err /\ UNCHANGED s_result
            ELSE s_result' = <<>> /\ UNCHANGED s_raised
    /\ s_pc' = "done"
    /\ UNCHANGED <<s_key, reels_data, response_text>>
    /\ UNCHANGED <<summVars, geoVars, geocodeVars, textVars, restVars>>

SearchNext ==
    \/ SearchEnter
    \/ SearchGenerate
    \/ SearchParse

SpecSearch == SearchInit /\ [][SearchNext]_vars

(***************************************************************************)
(* search_locations_with_ai: properties                                    *)
(***************************************************************************)
\* the AI matches of a response: the items of the JSON list it holds, none
\* if it holds no JSON list
AiMatches(resp) ==
    LET cleaned == CleanResponse(resp) IN
    IF cleaned.err /= "none" THEN <<>>
    ELSE LET parsed == JsonLoads(cleaned.tokens) IN
         IF parsed.err = "none" /\ parsed.value.kind = "list"
         THEN parsed.value.items
         ELSE <<>>

\* the entry refers to a reel with the id of the match and to a location of
\* that reel with the name of the match, up to case
RefersTo(entry, item, reels) ==
    /\ item.obj
    /\ item.location_name /= Null
    /\ entry.reel_id = item.reel_id
    /\ Lower(entry.name) = Lower(item.location_name)
    /\ \E r \in 1..Len(reels) :
         /\ reels[r].id = item.reel_id
         /\ \E l \in 1..Len(reels[r].locations) : reels[r].locations[l] = entry.name

\* the entries come from the matches in order, each match giving at most one,
\* and each entry refers to the pair its match names
EntriesComeFromMatches(entries, items, reels) ==
    \E f \in [1..Len(entries) -> 1..Len(items)] :
        /\ \A i, j \in 1..Len(entries) : i < j => f[i] < f[j]
        /\ \A i \in 1..Len(entries) : RefersTo(entries[i], items[f[i]], reels)

\* C15: after the response is parsed, every entry returned refers to an input
\* reel with the reel_id of an AI match and to a location of that reel whose
\* name equals the match's location_name up to case; a match without such a
\* pair gives no entry and no error, and each match gives at most one entry.
C15_EntriesReferToKnownPairs ==
    [][SearchParse
         => /\ s_raised' = "none"
            /\ EntriesComeFromMatches(s_result', AiMatches(response_text), reels_data)]_vars

\* two matches were returned by the AI, one was dropped and one was kept
C15_Witness ==
    /\ s_pc = "done"
    /\ Len(AiMatches(response_text)) = 2
    /\ Len(s_result) = 1
    /\ s_result[1].name /= AiMatches(response_text)[1].location_name

\* the response is no JSON list of match objects once the fence is removed
NotAMatchList(resp) ==
    \/ resp.is_none
    \/ LET stripped == Strip(resp.tokens)
           fenced == stripped /= <<>> /\ stripped[1].t = "fence"
       IN  \/ fenced /\ ~HasNewline(stripped)
           \/ \A k \in 1..Len(resp.tokens) :
                resp.tokens[k].t = "payload" => resp.tokens[k].v.kind /= "list"
           \/ \E k \in 1..Len(resp.tokens) :
                /\ resp.tokens[k].t = "payload"
                /\ \E i \in 1..Len(resp.tokens[k].v.items) : ~resp.tokens[k].v.items[i].obj
           \/ ~fenced /\ \E k \in 1..Len(stripped) : stripped[k].t /= "payload"
           \/ fenced /\ \E k \in 1..Len(stripped) :
                /\ stripped[k].t = "word"
                /\ \E n \in 1..(k - 1) : stripped[n].t = "nl"

\* C16: a response that is no JSON list of match objects once the code fence
\* is removed makes search_locations_with_ai return the empty list and raise
\* nothing.
C16_ParseFailureGivesEmpty ==
    [][(SearchParse /\ NotAMatchList(response_text))
         => (s_result' = <<>> /\ s_raised' = "none")]_vars

\* a response that is a JSON object and no list was parsed
C16_Witness ==
    /\ s_pc = "done"
    /\ ~response_text.is_none
    /\ NotAMatchList(response_text)
    /\ \E k \in 1..Len(response_text.tokens) :
         response_text.tokens[k].v.kind = "object"
    /\ s_result = <<>>
    /\ s_raised = "none"

(***************************************************************************)
(* Text of location names and section bodies.  A text is a sequence of     *)
(* lexemes: a word, one whitespace character or one punctuation character. *)
(* No lexeme of the model is a prefix of another, and no no-location or    *)
(* skip phrase can arise across two lexemes.  The texts given to           *)
(* _clean_location_name hold no line break.                                *)
(***************************************************************************)
Whitespace == {" ", "\n"}

\* ^(?:at|in|near|around|from|to)\s+
LocativePrefixes == {"at", "in", "near", "around", "from", "to"}

\* (?:^|\s)(?:the|a|an)\s+
Articles == {"the", "a", "an"}

\* [-–—]
Dashes == {"-"}

\* ,\s*(?:which|where|that|a|the)\s+
ClauseWords == {"which", "where", "that", "a", "the"}

\* the characters of strip('"\'...') and of rstrip('.,;:!?')
Quotes == {"'", "\""}

TrailingPunctuation == {".", ",", ";", ":", "!", "?"}

\* str.lstrip / str.rstrip / str.strip with a set of characters
RECURSIVE LStripChars(_, _)
LStripChars(text, chars) ==
    IF text /= <<>> /\ Head(text) \in chars THEN LStripChars(Tail(text), chars) ELSE text

RECURSIVE RStripChars(_, _)
RStripChars(text, chars) ==
    IF text /= <<>> /\ text[Len(text)] \in chars
    THEN RStripChars(SubSeq(text, 1, Len(text) - 1), chars)
    ELSE text

StripChars(text, chars) == LStripChars(RStripChars(text, chars), chars)

\* the text from position i on
From(text, i) == SubSeq(text, i, Len(text))

\* the position of the first lexeme of the set, 0 if there is none
FirstIn(text, chars) ==
    IF \E i \in 1..Len(text) : text[i] \in chars
    THEN CHOOSE i \in 1..Len(text) :
            /\ text[i] \in chars
            /\ \A j \in 1..(i - 1) : text[j] \notin chars
    ELSE 0

\* re.sub(r'^(?:at|in|near|around|from|to)\s+', '', ..., IGNORECASE)
RemovePrefix(text) ==
    IF Len(text) >= 2 /\ Lower(text[1]) \in LocativePrefixes /\ text[2] \in Whitespace
    THEN LStripChars(Tail(text), Whitespace)
    ELSE text

\* re.sub(r'\(.*?\)', '', ...): from each opening character to the nearest
\* closing one after it
RECURSIVE RemoveEnclosed(_, _, _)
RemoveEnclosed(text, open, close) ==
    LET i == FirstIn(text, {open}) IN
    IF i = 0 THEN text
    ELSE LET j == FirstIn(From(text, i + 1), {close}) IN
         IF j = 0 THEN text
         ELSE SubSeq(text, 1, i - 1) \o RemoveEnclosed(From(text, i + j + 1), open, close)

\* re.sub(r'(?:^|\s)(?:the|a|an)\s+', '', ..., IGNORECASE): the matches are
\* searched from left to right and do not overlap, so an article right after
\* a match has neither the start of the text nor a whitespace before it
RECURSIVE RemoveArticlesFrom(_, _)
RemoveArticlesFrom(text, at_start) ==
    IF text = <<>> THEN <<>>
    ELSE IF at_start /\ Len(text) >= 2 /\ Lower(text[1]) \in Articles
            /\ text[2] \in Whitespace
    THEN RemoveArticlesFrom(LStripChars(From(text, 2), Whitespace), FALSE)
    ELSE IF Len(text) >= 3 /\ text[1] \in Whitespace /\ Lower(text[2]) \in Articles
            /\ text[3] \in Whitespace
    THEN RemoveArticlesFrom(LStripChars(From(text, 3), Whitespace), FALSE)
    ELSE <<text[1]>> \o RemoveArticlesFrom(Tail(text), FALSE)

RemoveArticles(text) == RemoveArticlesFrom(text, TRUE)

\* re.sub(r'(?:\s*[-–—]\s*.+)$', '', ...): from the whitespace before the
\* first dash to the end, if anything follows the dash
RemoveDashSuffix(text) ==
    LET d == FirstIn(text, Dashes) IN
    IF d = 0 \/ d = Len(text) THEN text
    ELSE RStripChars(SubSeq(text, 1, d - 1), Whitespace)

\* a trailing clause starts at this comma: whitespace, a clause word,
\* whitespace and at least one more character follow
ClauseAt(text, c) ==
    /\ text[c] = ","
    /\ LET rest == LStripChars(From(text, c + 1), Whitespace) IN
       /\ Len(rest) >= 3
       /\ Lower(rest[1]) \in ClauseWords
       /\ rest[2] \in Whitespace

\* re.sub(r'(?:,\s*(?:which|where|that|a|the)\s+.+)$', '', ..., IGNORECASE)
RemoveTrailingClause(text) ==
    IF \E c \in 1..Len(text) : ClauseAt(text, c)
    THEN LET c == CHOOSE c \in 1..Len(text) :
                    /\ ClauseAt(text, c)
                    /\ \A b \in 1..(c - 1) : ~ClauseAt(text, b)
         IN  SubSeq(text, 1, c - 1)
    ELSE text

\* ' '.join(cleaned.split())
RECURSIVE NormalizeWhitespace(_)
NormalizeWhitespace(text) ==
    LET t == LStripChars(text, Whitespace) IN
    IF t = <<>> THEN <<>>
    ELSE LET rest == NormalizeWhitespace(Tail(t)) IN
         IF Len(t) >= 2 /\ t[2] \in Whitespace /\ rest /= <<>>
         THEN <<t[1], " ">> \o rest
         ELSE <<t[1]>> \o rest

\* the loop over DESCRIPTORS_TO_REMOVE, in the order of the list
RemoveDescriptors(text) ==
    RemoveTrailingClause(
        RemoveDashSuffix(
            RemoveArticles(
                RemoveEnclosed(RemoveEnclosed(text, "(", ")"), "[", "]"))))

\* _clean_location_name
CleanLocationName(name) ==
    StripChars(
        NormalizeWhitespace(
            RStripChars(
                StripChars(
                    RemoveDescriptors(RemovePrefix(StripChars(name, Whitespace))),
                    Quotes),
                TrailingPunctuation)),
        Whitespace)

(***************************************************************************)
(* _is_valid_location and _parse_location_lines on texts                   *)
(***************************************************************************)
\* the NO_LOCATION_PHRASES a lexeme of the model holds, lower-cased: 'none'
\* (and with it 'none mentioned') and 'studio'
NO_LOCATION_PHRASES == {"none", "studio"}

\* the SKIP_PHRASES a lexeme of the model holds, lower-cased
SKIP_PHRASES == {"mentioned", "various"}

\* the lexemes of one character that are no letter
Punctuation == {",", "-", "(", ")", "[", "]", ".", "'", "\"", ";", ":", "!", "?", "*"}

\* the lexeme is a word; every word of the model but "a" has two letters or more
IsWord(lexeme) == lexeme \notin Punctuation \cup Whitespace

\* len(name) < 2
TooShort(name) ==
    \/ name = <<>>
    \/ Len(name) = 1 /\ (~IsWord(name[1]) \/ name[1] = "a")

\* any(phrase in text.lower() for phrase in self.NO_LOCATION_PHRASES)
HasNoLocationPhrase(text) ==
    \E i \in 1..Len(text) : Lower(text[i]) \in NO_LOCATION_PHRASES

\* any(phrase in name_lower for phrase in self.SKIP_PHRASES)
HasSkipPhrase(text) ==
    \E i \in 1..Len(text) : Lower(text[i]) \in SKIP_PHRASES

\* len(name.split())
WordCount(text) ==
    LET t == NormalizeWhitespace(text) IN
    IF t = <<>> THEN 0 ELSE 1 + Cardinality({i \in 1..Len(t) : t[i] = " "})

\* _is_valid_location; no text of the model has digits or more than 100
\* characters
IsValidName(name) ==
    /\ ~TooShort(name)
    /\ ~HasSkipPhrase(name)
    /\ ~HasNoLocationPhrase(name)
    /\ \E i \in 1..Len(name) : IsWord(name[i])
    /\ WordCount(name) <= 6

\* content_lower == phrase or content_lower.startswith(phrase), for
\* content_lower = content.lower().strip()
StartsWithNoLocationPhrase(text) ==
    LET t == StripChars(text, Whitespace) IN
    t /= <<>> /\ Lower(t[1]) \in NO_LOCATION_PHRASES

\* str.split(sep)
RECURSIVE SplitOn(_, _)
SplitOn(text, sep) ==
    LET i == FirstIn(text, {sep}) IN
    IF i = 0 THEN <<text>>
    ELSE <<SubSeq(text, 1, i - 1)>> \o SplitOn(From(text, i + 1), sep)

\* line.count(',')
CommaCount(text) == Cardinality({i \in 1..Len(text) : text[i] = ","})

\* ' and ' in line.lower()
HasAnd(text) ==
    \E i \in 2..(Len(text) - 1) :
        text[i - 1] = " " /\ Lower(text[i]) = "and" /\ text[i + 1] = " "

\* a match of \s+and\s+ has its `and` at position i
AndAt(text, i) ==
    /\ 1 < i /\ i < Len(text)
    /\ text[i - 1] \in Whitespace
    /\ Lower(text[i]) = "and"
    /\ text[i + 1] \in Whitespace

\* re.split(r'\s+and\s+', line, flags=re.IGNORECASE)
RECURSIVE SplitAnd(_)
SplitAnd(text) ==
    IF \E i \in 1..Len(text) : AndAt(text, i)
    THEN LET i == CHOOSE i \in 1..Len(text) :
                    AndAt(text, i) /\ \A j \in 1..(i - 1) : ~AndAt(text, j)
         IN  <<RStripChars(SubSeq(text, 1, i - 1), Whitespace)>>
             \o SplitAnd(LStripChars(From(text, i + 1), Whitespace))
    ELSE <<text>>

\* the characters of r'^[\s\-\*...\d\.\)]+\s*' the model has
BulletChars == Whitespace \cup {"-", "*", ".", ")"}

\* re.sub(r'^[\s\-\*...\d\.\)]+\s*', '', line).strip()
RemoveBullet(line) == StripChars(LStripChars(line, BulletChars), Whitespace)

\* the parts of a line, each cleaned, the invalid ones left out
RECURSIVE CleanedValid(_)
CleanedValid(parts) ==
    IF parts = <<>> THEN <<>>
    ELSE LET cleaned == CleanLocationName(Head(parts)) IN
         (IF IsValidName(cleaned) THEN <<cleaned>> ELSE <<>>) \o CleanedValid(Tail(parts))

RECURSIVE StripEach(_)
StripEach(parts) ==
    IF parts = <<>> THEN <<>>
    ELSE <<StripChars(Head(parts), Whitespace)>> \o StripEach(Tail(parts))

\* a policy that splits on commas whenever the line has one
LineCandidatesAnyComma(line) ==
    LET text == RemoveBullet(line) IN
    IF text = <<>> THEN <<>>
    ELSE IF CommaCount(text) > 0 THEN CleanedValid(StripEach(SplitOn(text, ",")))
    ELSE IF HasAnd(text) THEN CleanedValid(SplitAnd(text))
    ELSE CleanedValid(<<text>>)

\* what a line that is kept adds to locations: the list, the `and` pair or
\* the single location
LineCandidates(line) ==
    LET text == RemoveBullet(line) IN
    IF text = <<>> THEN <<>>
    ELSE IF CommaCount(text) > 2 THEN CleanedValid(StripEach(SplitOn(text, ",")))
    ELSE IF HasAnd(text) /\ CommaCount(text) = 0 THEN CleanedValid(SplitAnd(text))
    ELSE CleanedValid(<<text>>)

\* a loop body without the check of the line for a no-location phrase
LocationsOfLineNoPhraseCheck(raw) ==
    LET line == StripChars(raw, Whitespace) IN
    IF line = <<>> THEN <<>> ELSE LineCandidates(line)

\* the body of `for line in lines`: what the line adds to locations
LocationsOfLine(raw) ==
    LET line == StripChars(raw, Whitespace) IN
    IF line = <<>> THEN <<>>
    ELSE IF HasNoLocationPhrase(line) THEN <<>>
    ELSE LineCandidates(line)

\* a list that grows at the front
PrependCandidates(locs, new) == new \o locs

\* locations.append(cleaned), for the candidates of one line
AppendCandidates(locs, new) == locs \o new

(***************************************************************************)
(* _parse_location_lines: the steps of one call                            *)
(***************************************************************************)
\* the most lines of a section body
MaxLines == 3

\* the lines of the model
SectionLines ==
    {<<"-", " ", "Paris", ",", " ", "France">>,
     <<"-", " ", "Tokyo", ",", " ", "Japan">>,
     <<"-", " ", "None", " ", "mentioned">>,
     <<"None", " ", "mentioned">>,
     <<" ", "None">>,
     <<"Studio", " ", "City">>,
     <<"Paris", " ", "(", "None", ")">>,
     <<"Paris", " ", "and", " ", "Tokyo">>,
     <<"Paris", ",", " ", "Tokyo", ",", " ", "Rome", ",", " ", "Oslo">>,
     <<"Paris", ",", " ", "Tokyo", ",", " ", "Rome">>,
     <<"Paris", " ", "and", " ", "Tokyo", ",", " ", "France">>,
     <<"Paris", " ", "and", " ", "Tokyo", ",", " ", "Rome", ",", " ", "Oslo", ",", " ", "Japan">>,
     <<"in", " ", "Paris">>,
     <<"Various">>,
     <<"-">>,
     <<" ">>}

\* '\n'.join(lines)
RECURSIVE JoinLines(_)
JoinLines(ls) ==
    IF ls = <<>> THEN <<>>
    ELSE IF Len(ls) = 1 THEN ls[1]
    ELSE ls[1] \o <<"\n">> \o JoinLines(Tail(ls))

SectionBodies == {JoinLines(ls) : ls \in SeqsUpTo(SectionLines, MaxLines)}

ParseInit ==
    /\ p_pc = "start"
    /\ content \in SectionBodies
    /\ lines = <<>>
    /\ p_locations = <<>>
    /\ CleanIdle
    /\ RestIdle
    /\ SummIdle
    /\ GeoIdle
    /\ GeocodeIdle
    /\ SearchIdle

\* an entry that goes to the lines whatever the content starts with
ParseEnterNoContentCheck ==
    /\ p_pc = "start"
    /\ p_pc' = "loop"
    /\ lines' = SplitOn(content, "\n")
    /\ UNCHANGED <<content, p_locations>>
    /\ UNCHANGED <<summVars, geoVars, geocodeVars, searchVars, cleanVars, restVars>>

\* the check of the entire content, then content.split('\n')
ParseEnter ==
    /\ p_pc = "start"
    /\ IF StartsWithNoLocationPhrase(content)
       THEN p_pc' = "done" /\ UNCHANGED lines
       ELSE p_pc' = "loop" /\ lines' = SplitOn(content, "\n")
    /\ UNCHANGED <<content, p_locations>>
    /\ UNCHANGED <<summVars, geoVars, geocodeVars, searchVars, cleanVars, restVars>>

\* one pass of `for line in lines`
ParseLine ==
    /\ p_pc = "loop"
    /\ lines /= <<>>
    /\ p_locations' = AppendCandidates(p_locations, LocationsOfLine(Head(lines)))
    /\ lines' = Tail(lines)
    /\ UNCHANGED <<p_pc, content>>
    /\ UNCHANGED <<summVars, geoVars, geocodeVars, searchVars, cleanVars, restVars>>

\* return locations
ParseReturn ==
    /\ p_pc = "loop"
    /\ lines = <<>>
    /\ p_pc' = "done"
    /\ UNCHANGED <<content, lines, p_locations>>
    /\ UNCHANGED <<summVars, geoVars, geocodeVars, searchVars, cleanVars, restVars>>

ParseNext ==
    \/ ParseEnter
    \/ ParseLine
    \/ ParseReturn

SpecParse == ParseInit /\ [][ParseNext]_vars

(***************************************************************************)
(* _parse_location_lines: properties                                       *)
(***************************************************************************)
ParseDone == p_pc = "done"

\* the lines of the body
BodyLines == SplitOn(content, "\n")

\* the line is blank once stripped
IsBlank(line) == StripChars(line, Whitespace) = <<>>

\* C17: a body that, trimmed and case-folded, equals or starts with a
\* no-location phrase gives the empty list, whatever its later lines hold.
C17_LeadingPhraseGivesEmpty ==
    (ParseDone /\ StartsWithNoLocationPhrase(content)) => p_locations = <<>>

\* a body that starts with a phrase and whose last line names a place
C17_Witness ==
    /\ ParseDone
    /\ StartsWithNoLocationPhrase(content)
    /\ Len(BodyLines) >= 2
    /\ BodyLines[Len(BodyLines)] = <<"in", " ", "Paris">>
    /\ p_locations = <<>>

\* C18, as stated: a body with a no-location phrase anywhere gives the empty
\* list.
C18_Original ==
    (ParseDone /\ HasNoLocationPhrase(content)) => p_locations = <<>>

\* C18: in a body with a no-location phrase, no location returned holds a
\* no-location phrase, and the list is empty when the body starts with a
\* phrase or every line that is not blank holds one.
C18_PhraseLinesGiveNothing ==
    (ParseDone /\ HasNoLocationPhrase(content))
        => /\ \A i \in 1..Len(p_locations) : ~HasNoLocationPhrase(p_locations[i])
           /\ (\/ StartsWithNoLocationPhrase(content)
               \/ \A k \in 1..Len(BodyLines) :
                    IsBlank(BodyLines[k]) \/ HasNoLocationPhrase(BodyLines[k]))
                => p_locations = <<>>

\* a body that does not start with a phrase, with a phrase in each of its
\* lines, one of them after a place name
C18_Witness ==
    /\ ParseDone
    /\ ~StartsWithNoLocationPhrase(content)
    /\ Len(BodyLines) >= 2
    /\ BodyLines[1] = <<"Paris", " ", "(", "None", ")">>
    /\ \A k \in 1..Len(BodyLines) : HasNoLocationPhrase(BodyLines[k])
    /\ p_locations = <<>>

\* the candidates of the lines without a no-location phrase, in line order
RECURSIVE CandidatesOfKept(_)
CandidatesOfKept(ls) ==
    IF ls = <<>> THEN <<>>
    ELSE (IF IsBlank(Head(ls)) \/ HasNoLocationPhrase(Head(ls))
          THEN <<>>
          ELSE LineCandidates(StripChars(Head(ls), Whitespace)))
         \o CandidatesOfKept(Tail(ls))

\* C19: for a body of several lines that does not start with a no-location
\* phrase, each line that holds a phrase gives no candidate and the other
\* lines give their candidates in line order.
C19_PhraseLinesDroppedOthersKept ==
    (ParseDone /\ Len(BodyLines) >= 2 /\ ~StartsWithNoLocationPhrase(content))
        => p_locations = CandidatesOfKept(BodyLines)

\* "- Paris, France\n- Tokyo, Japan\n- None mentioned" gave the two places
C19_Witness ==
    /\ ParseDone
    /\ BodyLines = << <<"-", " ", "Paris", ",", " ", "France">>,
                      <<"-", " ", "Tokyo", ",", " ", "Japan">>,
                      <<"-", " ", "None", " ", "mentioned">> >>
    /\ p_locations = << <<"Paris", ",", " ", "France">>,
                        <<"Tokyo", ",", " ", "Japan">> >>

(***************************************************************************)
(* _clean_location_name applied to a name and to its own result            *)
(***************************************************************************)
\* the longest name of the model, in lexemes
MaxNameLen == 4

\* the lexemes of the names: a locative prefix, an article that is also a
\* clause word, a place, and the punctuation the clean-up looks at
NameLexemes == {"in", "the", "Paris", " ", ",", "-", "(", ")", ".", "'"}

\* stacked prefixes and repeated articles, longer than MaxNameLen
StackedNames ==
    {<<"in", " ", "in", " ", "Paris">>,
     <<"the", " ", "the", " ", "Paris">>,
     <<"in", " ", "the", " ", "Paris">>}

NameInputs == SeqsUpTo(NameLexemes, MaxNameLen) \cup StackedNames

CleanInit ==
    /\ c_pc = "start"
    /\ c_name \in NameInputs
    /\ c_once = <<>>
    /\ c_twice = <<>>
    /\ ParseIdle
    /\ RestIdle
    /\ SummIdle
    /\ GeoIdle
    /\ GeocodeIdle
    /\ SearchIdle

CleanOnce ==
    /\ c_pc = "start"
    /\ c_once' = CleanLocationName(c_name)
    /\ c_pc' = "once"
    /\ UNCHANGED <<c_name, c_twice>>
    /\ UNCHANGED <<summVars, geoVars, geocodeVars, searchVars, parseVars, restVars>>

CleanTwice ==
    /\ c_pc = "once"
    /\ c_twice' = CleanLocationName(c_once)
    /\ c_pc' = "twice"
    /\ UNCHANGED <<c_name, c_once>>
    /\ UNCHANGED <<summVars, geoVars, geocodeVars, searchVars, parseVars, restVars>>

CleanNext ==
    \/ CleanOnce
    \/ CleanTwice

SpecClean == CleanInit /\ [][CleanNext]_vars

\* C20: _clean_location_name is idempotent: cleaning the cleaned name gives
\* the cleaned name again.
C20_CleanIdempotent == c_pc = "twice" => c_twice = c_once

(***************************************************************************)
(* extract_title_from_summary.  The summary is a text of lexemes; ICON is  *)
(* the label emoji of the title heading (U+1F3F7), which the three         *)
(* patterns require: their `?` applies to the variation selector after it. *)
(***************************************************************************)
ICON == "ICON"

\* #{1,4}
Hashes == {"#", "##", "###", "####"}

\* the number of characters of a lexeme of a summary: the words and marks of
\* the model, ICON with its variation selector, else one character
CharLen(lexeme) ==
    CASE lexeme = "X150" -> 150
      [] lexeme = "Summary" -> 7
      [] lexeme \in {"Title", "Paris"} -> 5
      [] lexeme \in {"Good", "####"} -> 4
      [] lexeme \in {"Rio", "###"} -> 3
      [] lexeme \in {"Hi", "**", "##", ICON} -> 2
      [] OTHER -> 1

\* len(text)
RECURSIVE TextLen(_)
TextLen(text) == IF text = <<>> THEN 0 ELSE CharLen(Head(text)) + TextLen(Tail(text))

\* the lexeme at position i, "" outside the text
At(text, i) == IF i \in 1..Len(text) THEN text[i] ELSE ""

\* the first position from i on that holds no whitespace, Len(text) + 1 if
\* there is none: where \s* ends
SkipWs(text, i) ==
    IF \E j \in i..Len(text) : text[j] \notin Whitespace
    THEN CHOOSE j \in i..Len(text) :
            /\ text[j] \notin Whitespace
            /\ \A n \in i..(j - 1) : text[n] \in Whitespace
    ELSE Len(text) + 1

\* the last position of the line that position r is in
EndOfLine(text, r) ==
    CHOOSE c \in r..Len(text) :
        /\ \A n \in r..c : text[n] /= "\n"
        /\ At(text, c + 1) \in {"\n", ""}

\* ICON \s* Title from position j: the position after Title, 0 if no match
AfterIconTitle(text, j) ==
    LET t == SkipWs(text, j + 1) IN
    IF At(text, j) = ICON /\ Lower(At(text, t)) = "title" THEN t + 1 ELSE 0

\* the part of pattern k up to Title, tried at position i: the position
\* after Title, 0 if no match
TitleHeadingEnd(k, text, i) ==
    CASE k = 1 -> IF At(text, i) \in Hashes
                  THEN AfterIconTitle(text, SkipWs(text, i + 1)) ELSE 0
      [] k = 2 -> IF At(text, i) = "**"
                  THEN AfterIconTitle(text, SkipWs(text, i + 1)) ELSE 0
      [] OTHER -> IF i = 1 \/ At(text, i - 1) = "\n"
                  THEN AfterIconTitle(text, i) ELSE 0

\* \s*\*\* from position g: the position after the closing **, 0 if no match
BoldClose(text, g) ==
    IF g > 0 /\ At(text, SkipWs(text, g)) = "**" THEN SkipWs(text, g) + 1 ELSE 0

\* where the group (.+?) starts when the part before the whitespace ends at
\* g - 1: pattern 1 (\s*\n+) needs a line break right before the group, the
\* others (\s*\n?) do not; \s* takes as much as it can; 0 if no match
GroupStart(k, text, g) ==
    IF g = 0 THEN 0
    ELSE LET e == SkipWs(text, g)
             starts == {r \in g..e :
                          /\ r <= Len(text)
                          /\ text[r] /= "\n"
                          /\ k = 1 => (r > g /\ text[r - 1] = "\n")}
         IN  IF starts = {} THEN 0
             ELSE CHOOSE r \in starts : \A q \in starts : q <= r

\* pattern k tried at position i: where its group starts, 0 if no match.
\* The colon is optional: it is taken if the rest matches with it.
TitleGroupAt(k, text, i) ==
    LET t == TitleHeadingEnd(k, text, i) IN
    IF t = 0 THEN 0
    ELSE LET c == SkipWs(text, t)
             after_colon == IF At(text, c) = ":" THEN c + 1 ELSE 0
             with_colon ==
                 GroupStart(k, text,
                            IF k = 2 THEN BoldClose(text, after_colon) ELSE after_colon)
             without_colon ==
                 GroupStart(k, text, IF k = 2 THEN BoldClose(text, t) ELSE t)
         IN  IF with_colon > 0 THEN with_colon ELSE without_colon

\* re.search(patterns[k], summary, re.IGNORECASE | re.MULTILINE): the
\* leftmost match; its group runs to the end of the line
TitleSearch(k, text) ==
    IF \E i \in 1..Len(text) : TitleGroupAt(k, text, i) > 0
    THEN LET i == CHOOSE i \in 1..Len(text) :
                    /\ TitleGroupAt(k, text, i) > 0
                    /\ \A j \in 1..(i - 1) : TitleGroupAt(k, text, j) = 0
             r == TitleGroupAt(k, text, i)
         IN  [matched |-> TRUE, group |-> SubSeq(text, r, EndOfLine(text, r))]
    ELSE [matched |-> FALSE, group |-> <<>>]

\* the clean-up of the title: strip, quotes, periods, whitespace
CleanTitle(group) ==
    NormalizeWhitespace(
        StripChars(StripChars(StripChars(group, Whitespace), Quotes), {"."}))

\* a validation without the upper limit
TitleValidNoUpperLimit(t) == 3 <= TextLen(t)

\* 3 <= len(title) <= 150
TitleValid(t) == 3 <= TextLen(t) /\ TextLen(t) <= 150

NumPatterns == 3

(***************************************************************************)
(* extract_title_from_summary: the steps of one call                       *)
(***************************************************************************)
\* the most blocks of a summary
MaxBlocks == 2

\* the title headings of the model: the three forms the patterns look for,
\* and the first form without its emoji
TitleHeadings ==
    {<<"###", " ", ICON, " ", "Title", ":", "\n">>,
     <<"**", ICON, " ", "Title", ":", "**", " ">>,
     <<ICON, " ", "Title", ":", " ">>,
     <<"###", " ", "Title", ":", "\n">>}

\* the lines after a heading: of 2, 10, 5 (once cleaned), 3, 150 and 151
\* characters, and one of 4 characters that cleans to 2
TitleLines ==
    {<<"Hi">>,
     <<"Good", " ", "Title">>,
     <<"\"", "Paris", ".", "\"">>,
     <<"Rio">>,
     <<"X150">>,
     <<"X150", "a">>,
     <<"\"", "Hi", "\"">>}

SummaryBlocks == {h \o t : h \in TitleHeadings, t \in TitleLines} \cup {<<"Summary">>}

\* '\n\n'.join(blocks)
RECURSIVE JoinBlocks(_)
JoinBlocks(bs) ==
    IF bs = <<>> THEN <<>>
    ELSE IF Len(bs) = 1 THEN bs[1]
    ELSE bs[1] \o <<"\n", "\n">> \o JoinBlocks(Tail(bs))

SummaryTexts == {JoinBlocks(bs) : bs \in SeqsUpTo(SummaryBlocks, MaxBlocks)}

TitleInit ==
    /\ t_pc = "start"
    /\ summary \in SummaryTexts
    /\ pattern_idx = 1
    /\ title = <<>>
    /\ discarded = FALSE
    /\ SummIdle
    /\ GeoIdle
    /\ GeocodeIdle
    /\ SearchIdle
    /\ TextIdle
    /\ HandlerIdle
    /\ TailIdle

\* if not summary: return None, summary
TitleEnter ==
    /\ t_pc = "start"
    /\ t_pc' = IF summary = <<>> THEN "done" ELSE "loop"
    /\ UNCHANGED <<summary, pattern_idx, title, discarded>>
    /\ UNCHANGED <<summVars, geoVars, geocodeVars, searchVars, textVars, handlerVars, tailVars>>

\* one pass of `for pattern in patterns`; the break leads to the return
TitleTryPattern ==
    /\ t_pc = "loop"
    /\ pattern_idx <= NumPatterns
    /\ LET m == TitleSearch(pattern_idx, summary)
           cleaned == CleanTitle(m.group)
       IN  IF ~m.matched
           THEN /\ pattern_idx' = pattern_idx + 1
                /\ UNCHANGED <<t_pc, title, discarded>>
           ELSE IF TitleValid(cleaned)
           THEN /\ title' = <<cleaned>>
                /\ t_pc' = "done"
                /\ UNCHANGED <<pattern_idx, discarded>>
           ELSE /\ title' = <<>>
                /\ discarded' = TRUE
                /\ pattern_idx' = pattern_idx + 1
                /\ UNCHANGED t_pc
    /\ UNCHANGED summary
    /\ UNCHANGED <<summVars, geoVars, geocodeVars, searchVars, textVars, handlerVars, tailVars>>

\* return title, summary, after the last pattern
TitleReturn ==
    /\ t_pc = "loop"
    /\ pattern_idx > NumPatterns
    /\ t_pc' = "done"
    /\ UNCHANGED <<summary, pattern_idx, title, discarded>>
    /\ UNCHANGED <<summVars, geoVars, geocodeVars, searchVars, textVars, handlerVars, tailVars>>

TitleNext ==
    \/ TitleEnter
    \/ TitleTryPattern
    \/ TitleReturn

SpecTitle == TitleInit /\ [][TitleNext]_vars

(***************************************************************************)
(* extract_title_from_summary: properties                                  *)
(***************************************************************************)
TitleDone == t_pc = "done"

\* C21: the title returned is nothing or a cleaned string of 3 to 150
\* characters.
C21_TitleLengthInRange ==
    (TitleDone /\ title /= <<>>)
        => (3 <= TextLen(title[1]) /\ TextLen(title[1]) <= 150)

\* a title of exactly 150 characters was returned for a summary that also
\* holds a line of 151 characters under a heading
C21_Witness ==
    /\ TitleDone
    /\ title = << <<"X150">> >>
    /\ \E i \in 1..(Len(summary) - 1) : summary[i] = "X150" /\ summary[i + 1] = "a"

\* C27: when a pattern matched and its cleaned text was shorter than 3 or
\* longer than 150 characters, nothing is returned: no title is taken from
\* another pattern.
C27_DiscardedMatchGivesNothing == (TitleDone /\ discarded) => title = <<>>

(***************************************************************************)
(* The handlers of /api/summarize and /api/summarize-quick (src/main.py),  *)
(* with extract_locations_from_text and geocode_multiple as they call      *)
(* them.  The downloader, summarizer.summarize and the text of the summary *)
(* are the environment.  summarizer.summarize raises nothing, so the       *)
(* `except SummarizationError` branch of the handlers is not entered.      *)
(***************************************************************************)
\* what summarizer.summarize returns: a success with the text of the
\* response (which can be "" or None), or a failure without summary
SummarizeResults ==
    {[success |-> TRUE, summary |-> t] : t \in ResponseTexts}
    \cup {[success |-> FALSE, summary |-> Null]}

\* the order-preserving removal of duplicates (seen / unique_locations);
\* names that are equal in lower case carry the same number
RECURSIVE Unique(_, _)
Unique(names, seen) ==
    IF names = <<>> THEN <<>>
    ELSE IF Head(names) \in seen THEN Unique(Tail(names), seen)
    ELSE <<Head(names)>> \o Unique(Tail(names), seen \cup {Head(names)})

\* an extraction without the limit of 10
ExtractLocationsNoLimit(parsed) == Unique(parsed, {})

\* extract_locations_from_text, from the list _parse_location_lines gave:
\* unique_locations[:10]
ExtractLocations(parsed) ==
    LET unique_locations == Unique(parsed, {}) IN
    SubSeq(unique_locations, 1,
           IF Len(unique_locations) < MAX_LOCATIONS
           THEN Len(unique_locations) ELSE MAX_LOCATIONS)

\* if request_id: background_tasks.add_task(cleanup_download, request_id)
ScheduleCleanup(rid, tasks) == IF Truthy(rid) THEN tasks + 1 ELSE tasks

HttpException == [kind |-> "http_exception", success |-> FALSE, locations |-> <<>>]

FailureResponse == [kind |-> "response", success |-> FALSE, locations |-> <<>>]

HandlerInit ==
    /\ h_pc = "start"
    /\ endpoint \in {"summarize", "quick"}
    /\ gemini_key \in BOOLEAN
    /\ dir_created = FALSE
    /\ request_id = Null
    /\ cleanup_tasks = 0
    /\ h_result = [success |-> FALSE, summary |-> Null]
    /\ locations_list = <<>>
    /\ response = NoResponse
    /\ gpc = "idle"
    /\ api_key \in BOOLEAN
    /\ location_names = <<>>
    /\ idx = 0
    /\ locations = <<>>
    /\ seen_coords = {}
    /\ geo_result = <<>>
    /\ successes = <<>>
    /\ lookups = 0
    /\ delays = 0
    /\ geo_raised = FALSE
    /\ SummIdle
    /\ GeocodeIdle
    /\ SearchIdle
    /\ TextIdle
    /\ TitleIdle
    /\ TailIdle

\* what the handler leaves alone besides its own variables and the geocoder's
handlerOthers == <<summVars, geocodeVars, searchVars, textVars, titleVars, tailVars>>

\* if not GEMINI_API_KEY: raise HTTPException(503)
HandlerEnter ==
    /\ h_pc = "start"
    /\ IF ~gemini_key
       THEN h_pc' = "done" /\ response' = HttpException
       ELSE h_pc' = "download" /\ UNCHANGED response
    /\ UNCHANGED <<endpoint, gemini_key, dir_created, request_id, cleanup_tasks,
                   h_result, locations_list>>
    /\ UNCHANGED <<geoVars, handlerOthers>>

\* the `except Exception` branch: cleanup if request_id, then HTTPException
\* (the quick handler has no cleanup)
UnexpectedError ==
    /\ h_pc' = "done"
    /\ cleanup_tasks' = IF endpoint = "summarize"
                        THEN ScheduleCleanup(request_id, cleanup_tasks)
                        ELSE cleanup_tasks
    /\ response' = HttpException

\* downloader.download_media / downloader.get_media_info and the handler's
\* reaction to what they raise
HandlerDownload ==
    /\ h_pc = "download"
    /\ \/ /\ endpoint = "summarize"
          /\ \/ \* output_path.mkdir raises
                /\ UnexpectedError
                /\ UNCHANGED <<dir_created, request_id>>
             \/ \* the directory is made, _download raises DownloadError
                /\ dir_created' = TRUE
                /\ cleanup_tasks' = ScheduleCleanup(request_id, cleanup_tasks)
                /\ response' = FailureResponse
                /\ h_pc' = "done"
                /\ UNCHANGED request_id
             \/ \* the directory is made, _download returns
                /\ dir_created' = TRUE
                /\ request_id' = "a1b2c3d4"
                /\ h_pc' = "summarize"
                /\ UNCHANGED <<cleanup_tasks, response>>
       \/ /\ endpoint = "quick"
          /\ \/ \* get_media_info raises DownloadError
                /\ response' = FailureResponse
                /\ h_pc' = "done"
             \/ \* get_media_info returns
                /\ h_pc' = "summarize"
                /\ UNCHANGED response
          /\ UNCHANGED <<dir_created, request_id, cleanup_tasks>>
    /\ UNCHANGED <<endpoint, gemini_key, h_result, locations_list>>
    /\ UNCHANGED <<geoVars, handlerOthers>>

\* MediaInfo(...), get_summarizer() and summarizer.summarize(...)
HandlerSummarize ==
    /\ h_pc = "summarize"
    /\ \/ /\ UnexpectedError
          /\ UNCHANGED h_result
       \/ \E r \in SummarizeResults :
            /\ h_result' = r
            /\ h_pc' = "extract"
            /\ UNCHANGED <<cleanup_tasks, response>>
    /\ UNCHANGED <<endpoint, gemini_key, dir_created, request_id, locations_list>>
    /\ UNCHANGED <<geoVars, handlerOthers>>

\* if summary_text and result.get('success'): the extraction of the names
\* and, if there are names, the call of geocode_multiple
HandlerExtract ==
    /\ h_pc = "extract"
    /\ IF Truthy(h_result.summary) /\ h_result.success
       THEN \E parsed \in InputLists :
              LET names == ExtractLocations(parsed) IN
              IF names /= <<>>
              THEN /\ h_pc' = "geocoding"
                   /\ gpc' = "start"
                   /\ location_names' = names
                   /\ UNCHANGED <<api_key, idx, locations, seen_coords, geo_result,
                                  successes, lookups, delays, geo_raised>>
              ELSE /\ h_pc' = "respond"
                   /\ UNCHANGED geoVars
       ELSE /\ h_pc' = "respond"
            /\ UNCHANGED geoVars
    /\ UNCHANGED <<endpoint, gemini_key, dir_created, request_id, cleanup_tasks,
                   h_result, locations_list, response>>
    /\ UNCHANGED handlerOthers

\* geocoded = await geocoder.geocode_multiple(...); if geocoded: ...
HandlerAfterGeocode ==
    /\ h_pc = "geocoding"
    /\ gpc = "done"
    /\ IF geo_raised
       THEN /\ UnexpectedError
            /\ UNCHANGED locations_list
       ELSE /\ locations_list' = IF geo_result /= <<>> THEN <<geo_result>> ELSE <<>>
            /\ h_pc' = "respond"
            /\ UNCHANGED <<cleanup_tasks, response>>
    /\ UNCHANGED <<endpoint, gemini_key, dir_created, request_id, h_result>>
    /\ UNCHANGED <<geoVars, handlerOthers>>

\* the cleanup task and return SummarizeResponse(...)
HandlerRespond ==
    /\ h_pc = "respond"
    /\ cleanup_tasks' = IF endpoint = "summarize"
                        THEN ScheduleCleanup(request_id, cleanup_tasks)
                        ELSE cleanup_tasks
    /\ response' = [kind |-> "response", success |-> h_result.success,
                    locations |-> locations_list]
    /\ h_pc' = "done"
    /\ UNCHANGED <<endpoint, gemini_key, dir_created, request_id, h_result, locations_list>>
    /\ UNCHANGED <<geoVars, handlerOthers>>

HandlerNext ==
    \/ HandlerEnter
    \/ HandlerDownload
    \/ HandlerSummarize
    \/ HandlerExtract
    \/ GeocodeMultipleEnter
    \/ GeocodeMultipleStep
    \/ GeocodeMultipleReturn
    \/ HandlerAfterGeocode
    \/ HandlerRespond

SpecHandler == HandlerInit /\ [][HandlerNext]_vars

(***************************************************************************)
(* The handlers: properties                                                *)
(***************************************************************************)
HandlerDone == h_pc = "done"

\* C22: the response of the summarize handlers holds at most 10 locations,
\* and holds locations only when the summarization result has success=true.
C22_AtMostTenAndOnlyOnSuccess ==
    (HandlerDone /\ response.locations /= <<>>)
        => /\ Len(response.locations[1]) <= MAX_LOCATIONS
           /\ response.success
           /\ h_result.success

\* eleven distinct places were extracted and ten locations handed back
C22_Witness ==
    /\ HandlerDone
    /\ response.kind = "response"
    /\ response.locations /= <<>>
    /\ Len(response.locations[1]) = MAX_LOCATIONS
    /\ lookups = MAX_LOCATIONS

\* C23: when the downloader created the directory of the request, a cleanup
\* of it has been scheduled when the handler is done, on every exit path.
C23_CleanupScheduledOnEveryExit ==
    (HandlerDone /\ dir_created) => cleanup_tasks >= 1

(***************************************************************************)
(* geocode_multiple: the delay between lookups                             *)
(***************************************************************************)
\* C24: between every two consecutive lookups of a batch the delay is
\* taken, whatever the earlier lookups gave: after n >= 1 lookups there
\* were n - 1 delays.
C24_DelayBetweenEveryTwoLookups ==
    lookups >= 1 => delays = lookups - 1

(***************************************************************************)
(* The video attempt: the order of its steps                               *)
(***************************************************************************)
\* a generate_content call with the video is issued by this step
GenerateIssued == video_gen_calls' /= video_gen_calls

\* a client.files.delete call is issued by this step
ReleaseIssued == delete_calls' /= delete_calls

\* C25: the steps of a video attempt occur in the order upload,
\* await-active, generate, release: a generation call is issued only with
\* an asset name from the upload and after a state check observed ACTIVE,
\* and before any release; it is never issued when the upload failed or the
\* wait ended on FAILED, on a timeout or on an error; and when the wait
\* succeeded the asset is released only after the generation call returned
\* or failed, or after the request could not be built.
C25_StepsInOrder ==
    /\ [][GenerateIssued =>
            /\ Truthy(file_name)
            /\ polls >= 1
            /\ last_state = "ACTIVE"
            /\ wait_outcome = "active"
            /\ delete_calls = 0]_vars
    /\ [](~Truthy(file_name) => video_gen_calls = 0)
    /\ [](wait_outcome \in {"failed", "timeout", "exception"} => video_gen_calls = 0)
    /\ [][ReleaseIssued =>
            /\ video_gen_calls' = video_gen_calls
            /\ wait_outcome = "active" =>
                 \/ video_gen_calls = 1 /\ pending.kind \in {"return", "raise"}
                 \/ pending = Raise("SummarizationError", "Failed to analyze video")]_vars
    /\ [][delete_calls >= 1 => ~GenerateIssued]_vars

\* C25 witness: an asset became ACTIVE on its second check, the generation
\* call was made and returned, and the asset was released after it
C25_Witness ==
    /\ polls = 2
    /\ last_state = "ACTIVE"
    /\ video_gen_calls = 1
    /\ delete_calls = 1
    /\ video_outcome.kind = "return"

(***************************************************************************)
(* _wait_for_file_active by itself, for every max_wait_seconds: each       *)
(* files.get returns a state, and the clock advances by poll_interval on   *)
(* each time.sleep and not otherwise                                       *)
(***************************************************************************)
MaxWaitArgument == 5

\* the max_wait_seconds of the call: small ones, and the default
WaitArguments == 0 .. MaxWaitArgument \cup {MAX_WAIT_SECONDS}

\* the smallest n with n * d >= a
CeilDiv(a, d) == (a + d - 1) \div d

WaitInit ==
    /\ w_pc = "check"
    /\ max_wait_seconds \in WaitArguments
    /\ start_offset = 0
    /\ w_checks = 0
    /\ w_sleeps = 0
    /\ w_state = Null
    /\ w_outcome = "none"
    /\ SummIdle
    /\ GeoIdle
    /\ GeocodeIdle
    /\ SearchIdle
    /\ TextIdle
    /\ TitleIdle
    /\ HandlerIdle
    /\ SectionIdle
    /\ AttemptsIdle

\* one pass of the while loop: files.get, the decision, and the sleep when
\* the loop goes on
WaitCheck ==
    /\ w_pc = "check"
    /\ \E state \in FileStates :
         LET step == WaitForFileActiveStep(state, start_offset, max_wait_seconds) IN
         /\ w_checks' = w_checks + 1
         /\ w_state' = state
         /\ IF step = "sleep"
            THEN /\ w_sleeps' = w_sleeps + 1
                 /\ start_offset' = start_offset + POLL_INTERVAL
                 /\ UNCHANGED <<w_pc, w_outcome>>
            ELSE /\ w_outcome' = step
                 /\ w_pc' = "done"
                 /\ UNCHANGED <<w_sleeps, start_offset>>
    /\ UNCHANGED max_wait_seconds
    /\ UNCHANGED <<summVars, geoVars, geocodeVars, searchVars, textVars, titleVars,
                   handlerVars, sectionVars, attemptVars>>

WaitNext == WaitCheck

SpecWait == WaitInit /\ [][WaitNext]_vars

\* every state check returns
SpecWaitFair == SpecWait /\ WF_vars(WaitCheck)

WaitDone == w_pc = "done"

\* C26 as stated: the wait ends after at most
\* floor(max_wait_seconds / poll_interval) + 1 state checks.
C26_Original ==
    w_checks <= (max_wait_seconds \div POLL_INTERVAL) + 1

\* C26 amended: _wait_for_file_active always terminates, after at least one
\* and at most ceil(max_wait_seconds / poll_interval) + 1 state checks (which
\* is floor(...) + 1 when max_wait_seconds is a multiple of the interval, as
\* the default is), with exactly one sleep of the interval between
\* consecutive checks.
C26_WaitTerminates ==
    /\ <>WaitDone
    /\ [](w_checks <= CeilDiv(max_wait_seconds, POLL_INTERVAL) + 1)
    /\ [](WaitDone => w_checks >= 1 /\ w_sleeps = w_checks - 1)
    /\ [](~WaitDone => w_sleeps = w_checks)
    /\ [](start_offset = w_sleeps * POLL_INTERVAL)

\* C26 witness: with max_wait_seconds = 3 the asset stayed pending and the
\* wait timed out on its third check
C26_Witness ==
    /\ WaitDone
    /\ max_wait_seconds = 3
    /\ w_outcome = "timeout"
    /\ w_state = "PROCESSING"
    /\ w_checks = 3
    /\ w_sleeps = 2

(***************************************************************************)
(* _parse_location_lines: the splitting policy of a line                   *)
(***************************************************************************)
\* the line the loop is at is retained: not blank, without a no-location
\* phrase, and not empty once its bullet is removed
LineRetained ==
    /\ p_pc = "loop"
    /\ lines /= <<>>
    /\ ~IsBlank(Head(lines))
    /\ ~HasNoLocationPhrase(StripChars(Head(lines), Whitespace))
    /\ RemoveBullet(StripChars(Head(lines), Whitespace)) /= <<>>

\* C29: a retained line is handled by exactly one policy, chosen by its
\* comma count: with more than 2 commas the candidates are the valid cleaned
\* parts between all commas; with no comma and an ' and ' they are the valid
\* cleaned parts around the conjunction; every other line gives at most one
\* candidate, the cleaned whole line.
C29_SplittingPolicy ==
    [][(ParseLine /\ LineRetained) =>
        LET text == RemoveBullet(StripChars(Head(lines), Whitespace))
            commas == CommaCount(text)
            added == SubSeq(p_locations', Len(p_locations) + 1, Len(p_locations'))
        IN  /\ SubSeq(p_locations', 1, Len(p_locations)) = p_locations
            /\ commas > 2 =>
                 /\ added = CleanedValid(StripEach(SplitOn(text, ",")))
                 /\ Len(added) <= commas + 1
            /\ (commas = 0 /\ HasAnd(text)) =>
                 added = CleanedValid(SplitAnd(text))
            /\ (commas \in {1, 2} \/ (commas = 0 /\ ~HasAnd(text))) =>
                 /\ Len(added) <= 1
                 /\ added /= <<>> => added = <<CleanLocationName(text)>>]_vars

\* C29 witness: a line with ' and ' and one comma gave one candidate, a
\* line with three commas and ' and ' gave four, a line with ' and ' alone
\* gave two
C29_Witness ==
    /\ ParseDone
    /\ content = JoinLines(<<
         <<"Paris", " ", "and", " ", "Tokyo", ",", " ", "France">>,
         <<"Paris", " ", "and", " ", "Tokyo", ",", " ", "Rome", ",", " ", "Oslo", ",", " ", "Japan">>,
         <<"Paris", " ", "and", " ", "Tokyo">> >>)
    /\ p_locations =
         << <<"Paris", " ", "and", " ", "Tokyo", ",", " ", "France">>,
            <<"Paris", " ", "and", " ", "Tokyo">>, <<"Rome">>, <<"Oslo">>, <<"Japan">>,
            <<"Paris">>, <<"Tokyo">> >>

(***************************************************************************)
(* _extract_locations_section (src/services/geocoder.py).  A text is a     *)
(* sequence of lexemes as for the title; PIN is the emoji of the locations *)
(* heading.                                                                *)
(***************************************************************************)
PIN == "PIN"

NumSectionPatterns == 4

\* Locations? under re.IGNORECASE, at position t
LocationsWordAt(text, t) == Lower(At(text, t)) \in {"locations", "location"}

\* the words of the model: letters only, which is what [A-Z][a-z]+ matches
\* under re.IGNORECASE
SectionWords == {"Locations", "Location", "Summary", "Paris", "Rome", "Oslo"}

\* \s*\n over the whitespace at positions a .. b - 1, with a group of at
\* least one character after it: \s* takes as much as it can, so the line
\* break is the last one that has something after it; 0 if there is none
LastNewline(text, a, b) ==
    LET breaks == {q \in a..(b - 1) : text[q] = "\n" /\ q < Len(text)} IN
    IF breaks = {} THEN 0 ELSE CHOOSE q \in breaks : \A r \in breaks : r <= q

\* \s*:?\s*\n( of patterns 1 and 2 from position t: where the group starts,
\* 0 if no match.  The colon is taken if the rest matches with it.
HeadingGroupStart(text, t) ==
    LET c == SkipWs(text, t)
        with_colon == IF At(text, c) = ":"
                      THEN LastNewline(text, c + 1, SkipWs(text, c + 1)) ELSE 0
        without_colon == LastNewline(text, t, c)
    IN  IF with_colon > 0 THEN with_colon + 1
        ELSE IF without_colon > 0 THEN without_colon + 1
        ELSE 0

\* \s*:?\s*\*\*\s*\n?( of pattern 3 from position t: where the group starts,
\* 0 if no match.  When the whitespace after ** runs to the end of the text
\* the group is its last character.
BoldGroupStart(text, t) ==
    LET c == SkipWs(text, t)
        b == IF At(text, c) = ":" THEN SkipWs(text, c + 1) ELSE c
        e == SkipWs(text, b + 1)
    IN  IF At(text, b) /= "**" THEN 0
        ELSE IF e <= Len(text) THEN e
        ELSE IF b < Len(text) THEN Len(text)
        ELSE 0

\* 📍?\s*Locations?\s*:[ \t]*\n( of pattern 4 from position w: where the
\* group starts, 0 if no match
LabelGroupStart(text, w) ==
    LET j == SkipWs(text, IF At(text, w) = PIN THEN w + 1 ELSE w)
        c == SkipWs(text, j + 1)
        sp == IF \E q \in (c + 1)..Len(text) : text[q] /= " "
              THEN CHOOSE q \in (c + 1)..Len(text) :
                      text[q] /= " " /\ \A r \in (c + 1)..(q - 1) : text[r] = " "
              ELSE Len(text) + 1
    IN  IF LocationsWordAt(text, j) /\ At(text, c) = ":" /\ At(text, sp) = "\n"
           /\ sp < Len(text)
        THEN sp + 1 ELSE 0

\* pattern k tried at position i: where its group starts, 0 if no match
SectionGroupAt(k, text, i) ==
    CASE k = 1 ->
           LET j == SkipWs(text, i + 1)
               w == SkipWs(text, j + 1)
           IN  IF At(text, i) \in Hashes /\ At(text, j) = PIN /\ LocationsWordAt(text, w)
               THEN HeadingGroupStart(text, w + 1) ELSE 0
      [] k = 2 ->
           LET w == SkipWs(text, i + 1) IN
           IF At(text, i) \in Hashes /\ LocationsWordAt(text, w)
           THEN HeadingGroupStart(text, w + 1) ELSE 0
      [] k = 3 ->
           LET j == SkipWs(text, i + 1)
               w == IF At(text, j) = PIN THEN SkipWs(text, j + 1) ELSE j
           IN  IF At(text, i) = "**" /\ LocationsWordAt(text, w)
               THEN BoldGroupStart(text, w + 1) ELSE 0
      [] OTHER ->
           IF i = 1 /\ LabelGroupStart(text, 1) > 0 THEN LabelGroupStart(text, 1)
           ELSE IF At(text, i) = "\n" THEN LabelGroupStart(text, i + 1)
           ELSE 0

\* the lookahead of pattern k holds at position e
SectionLookahead(k, text, e) ==
    \/ e = Len(text) + 1
    \/ /\ At(text, e) = "\n"
       /\ CASE k = 1 -> \/ /\ At(text, e + 1) \in Hashes
                           /\ At(text, e + 2) \in Whitespace
                           /\ At(text, e + 3) \notin {"", PIN}
                        \/ At(text, e + 1) = "---"
            [] k = 2 -> \/ At(text, e + 1) \in Hashes /\ At(text, e + 2) \in Whitespace
                        \/ At(text, e + 1) = "---"
            [] k = 3 -> At(text, e + 1) \in Hashes \cup {"**", "---"}
            [] OTHER -> \/ At(text, e + 1) \in Hashes \cup {"---"}
                        \/ \E n \in (e + 1)..Len(text) :
                              /\ \A q \in (e + 1)..n : text[q] \in SectionWords
                              /\ At(text, n + 1) = ":"

\* ([\s\S]+?) from position s: the position after the group, which is as
\* short as the lookahead allows and not empty
SectionGroupEnd(k, text, s) ==
    CHOOSE e \in (s + 1)..(Len(text) + 1) :
        /\ SectionLookahead(k, text, e)
        /\ \A q \in (s + 1)..(e - 1) : ~SectionLookahead(k, text, q)

\* re.search(patterns[k], text, re.IGNORECASE): the leftmost match
SectionSearch(k, text) ==
    IF \E i \in 1..Len(text) : SectionGroupAt(k, text, i) > 0
    THEN LET i == CHOOSE i \in 1..Len(text) :
                    /\ SectionGroupAt(k, text, i) > 0
                    /\ \A j \in 1..(i - 1) : SectionGroupAt(k, text, j) = 0
             s == SectionGroupAt(k, text, i)
         IN  [matched |-> TRUE,
              group |-> SubSeq(text, s, SectionGroupEnd(k, text, s) - 1)]
    ELSE [matched |-> FALSE, group |-> <<>>]

\* the most blocks of a text
MaxSections == 2

\* the four headings of the patterns, and a heading of another section
SectionHeadings ==
    {<<"###", " ", PIN, " ", "Locations", ":", "\n">>,
     <<"###", " ", "Locations", ":", "\n">>,
     <<"**", "Locations", ":", "**", " ">>,
     <<"Locations", ":", "\n">>,
     <<"###", " ", "Summary", "\n">>}

\* what follows a heading: a place, two lines, or whitespace only
SectionContents ==
    {<<"Paris">>,
     <<"Rome", "\n", "Oslo">>,
     <<"\n">>,
     <<" ">>}

SectionBlocks == {h \o c : h \in SectionHeadings, c \in SectionContents}

SectionTexts == {JoinLines(bs) : bs \in SeqsUpTo(SectionBlocks, MaxSections)}

SectionInit ==
    /\ x_pc = "loop"
    /\ x_text \in SectionTexts
    /\ x_idx = 1
    /\ x_matched = <<>>
    /\ x_result = <<>>
    /\ SummIdle
    /\ GeoIdle
    /\ GeocodeIdle
    /\ SearchIdle
    /\ TextIdle
    /\ TitleIdle
    /\ HandlerIdle
    /\ WaitIdle
    /\ AttemptsIdle

\* one pass of `for pattern in patterns`
SectionTryPattern ==
    /\ x_pc = "loop"
    /\ x_idx <= NumSectionPatterns
    /\ LET m == SectionSearch(x_idx, x_text)
           stripped == StripChars(m.group, Whitespace)
       IN  /\ x_matched' = IF m.matched THEN Append(x_matched, x_idx) ELSE x_matched
           /\ IF m.matched /\ stripped /= <<>>
              THEN /\ x_result' = <<stripped>>
                   /\ x_pc' = "done"
                   /\ UNCHANGED x_idx
              ELSE /\ x_idx' = x_idx + 1
                   /\ UNCHANGED <<x_result, x_pc>>
    /\ UNCHANGED x_text
    /\ UNCHANGED <<summVars, geoVars, geocodeVars, searchVars, textVars, titleVars,
                   handlerVars, waitVars, attemptVars>>

\* return None
SectionReturnNone ==
    /\ x_pc = "loop"
    /\ x_idx > NumSectionPatterns
    /\ x_pc' = "done"
    /\ UNCHANGED <<x_text, x_idx, x_matched, x_result>>
    /\ UNCHANGED <<summVars, geoVars, geocodeVars, searchVars, textVars, titleVars,
                   handlerVars, waitVars, attemptVars>>

SectionNext ==
    \/ SectionTryPattern
    \/ SectionReturnNone

SpecSection == SectionInit /\ [][SectionNext]_vars

SectionDone == x_pc = "done"

\* C28: the result is decided by the first pattern that matches: its body
\* is returned and no later pattern is consulted; with no match the result
\* is nothing.
C28_FirstMatchDecides ==
    SectionDone =>
        IF x_matched = <<>> THEN x_result = <<>>
        ELSE /\ Len(x_matched) = 1
             /\ x_result /= <<>>
             /\ x_idx = x_matched[1]

(***************************************************************************)
(* Several summarize_video calls at once: each runs its _generate on a     *)
(* worker thread of the executor, all with the one Summarizer of           *)
(* get_summarizer.  The steps of the attempts interleave freely.  The file *)
(* API names every upload afresh.                                          *)
(***************************************************************************)
\* the most attempts at once
MaxAttempts == 2

\* the most state checks of one attempt before its wait ends
MaxAttemptPolls == 2

\* a finally clause that reads the name from the shared Summarizer, where
\* the last upload of any attempt left it
FileNameToReleaseShared(own, last_uploaded) == last_uploaded

\* the finally clause reads file_name, a local of the attempt's _generate
FileNameToRelease(own, last_uploaded) == own

\* the name the file API gave out last: none or one
LastUploaded == IF names_issued = 0 THEN <<>> ELSE <<names_issued>>

Attempts == DOMAIN a_pc

AttemptsInit ==
    /\ \E n \in 1..MaxAttempts :
         /\ a_pc = [i \in 1..n |-> "exists"]
         /\ a_file_name = [i \in 1..n |-> <<>>]
         /\ a_polls = [i \in 1..n |-> 0]
         /\ a_pending = [i \in 1..n |-> "none"]
         /\ a_uploaded = [i \in 1..n |-> {}]
         /\ a_released = [i \in 1..n |-> {}]
    /\ remote_files = {}
    /\ names_issued = 0
    /\ SummIdle
    /\ GeoIdle
    /\ GeocodeIdle
    /\ SearchIdle
    /\ TextIdle
    /\ TitleIdle
    /\ HandlerIdle
    /\ WaitIdle
    /\ SectionIdle

attemptOthers == <<summVars, geoVars, geocodeVars, searchVars, textVars, titleVars,
                   handlerVars, waitVars, sectionVars>>

\* file_name = None; the video file must exist
AttemptCheckExists(i) ==
    /\ a_pc[i] = "exists"
    /\ \E exists \in BOOLEAN :
         /\ a_pc' = [a_pc EXCEPT ![i] = IF exists THEN "upload" ELSE "finally"]
         /\ a_pending' = [a_pending EXCEPT ![i] = IF exists THEN @ ELSE "raise"]
    /\ UNCHANGED <<a_file_name, a_polls, remote_files, names_issued, a_uploaded, a_released>>
    /\ UNCHANGED attemptOthers

\* file_uri, file_name = self._upload_file(...), or the upload fails
AttemptUpload(i) ==
    /\ a_pc[i] = "upload"
    /\ \/ LET name == names_issued + 1 IN
          /\ names_issued' = name
          /\ remote_files' = remote_files \cup {name}
          /\ a_file_name' = [a_file_name EXCEPT ![i] = <<name>>]
          /\ a_uploaded' = [a_uploaded EXCEPT ![i] = @ \cup {name}]
          /\ a_pc' = [a_pc EXCEPT ![i] = "wait"]
          /\ UNCHANGED a_pending
       \/ /\ a_pc' = [a_pc EXCEPT ![i] = "finally"]
          /\ a_pending' = [a_pending EXCEPT ![i] = "raise"]
          /\ UNCHANGED <<a_file_name, remote_files, names_issued, a_uploaded>>
    /\ UNCHANGED <<a_polls, a_released>>
    /\ UNCHANGED attemptOthers

\* one state check of self._wait_for_file_active(file_name): the wait goes
\* on, or ends with ACTIVE, or ends with an error
AttemptPoll(i) ==
    /\ a_pc[i] = "wait"
    /\ a_polls' = [a_polls EXCEPT ![i] = @ + 1]
    /\ \E step \in {"active", "failed", "timeout", "sleep"} :
         /\ step = "sleep" => a_polls[i] + 1 < MaxAttemptPolls
         /\ a_pc' = [a_pc EXCEPT ![i] = CASE step = "active" -> "generate"
                                          [] step = "sleep" -> "wait"
                                          [] OTHER -> "finally"]
         /\ a_pending' = [a_pending EXCEPT ![i] =
                             IF step \in {"failed", "timeout"} THEN "raise" ELSE @]
    /\ UNCHANGED <<a_file_name, remote_files, names_issued, a_uploaded, a_released>>
    /\ UNCHANGED attemptOthers

\* the request and client.models.generate_content: it returns or raises
AttemptGenerate(i) ==
    /\ a_pc[i] = "generate"
    /\ a_pc' = [a_pc EXCEPT ![i] = "finally"]
    /\ \E ended \in {"return", "raise"} : a_pending' = [a_pending EXCEPT ![i] = ended]
    /\ UNCHANGED <<a_file_name, a_polls, remote_files, names_issued, a_uploaded, a_released>>
    /\ UNCHANGED attemptOthers

\* finally: if file_name: self._delete_file(file_name); the delete can fail
AttemptFinally(i) ==
    /\ a_pc[i] = "finally"
    /\ LET file_name_read == FileNameToRelease(a_file_name[i], LastUploaded) IN
       IF file_name_read /= <<>>
       THEN /\ a_released' = [a_released EXCEPT ![i] = @ \cup {file_name_read[1]}]
            /\ \E delete_ok \in BOOLEAN :
                 remote_files' = IF delete_ok THEN remote_files \ {file_name_read[1]}
                                 ELSE remote_files
       ELSE UNCHANGED <<a_released, remote_files>>
    /\ a_pc' = [a_pc EXCEPT ![i] = "returned"]
    /\ UNCHANGED <<a_file_name, a_polls, a_pending, names_issued, a_uploaded>>
    /\ UNCHANGED attemptOthers

\* any attempt takes its next step
AttemptsNext ==
    \/ \E i \in Attempts : AttemptCheckExists(i)
    \/ \E i \in Attempts : AttemptUpload(i)
    \/ \E i \in Attempts : AttemptPoll(i)
    \/ \E i \in Attempts : AttemptGenerate(i)
    \/ \E i \in Attempts : AttemptFinally(i)

SpecAttempts == AttemptsInit /\ [][AttemptsNext]_vars

AllReturned == \A i \in Attempts : a_pc[i] = "returned"

\* C30: in every interleaving, an attempt calls delete only with the name
\* of an asset it uploaded itself, and once all attempts have returned a
\* delete has been called for every asset that any of them uploaded.
C30_OwnAssetsReleased ==
    /\ \A i \in Attempts : a_released[i] \subseteq a_uploaded[i]
    /\ \A i, j \in Attempts : i /= j => a_uploaded[i] \cap a_uploaded[j] = {}
    /\ AllReturned => \A i \in Attempts : a_released[i] = a_uploaded[i]

\* C30 witness: two attempts have returned; the second one uploaded first,
\* and each released the asset of its own upload
C30_Witness ==
    /\ AllReturned
    /\ a_uploaded = <<{2}, {1}>>
    /\ a_released = <<{2}, {1}>>
    /\ a_pending = <<"return", "return">>
    /\ remote_files = {}

====
